---- MODULE Spec2Model ----
(***************************************************************************)
(* A model of the HTTP acquisition layer of Aumiao                          *)
(* (Aumiao-py/rust/src/utils/acquire.rs): CodeMaoClient::send_request with  *)
(* its retry loop, the header set shared by the clones of a client          *)
(* (switch_account, update_cookies) and the paged stream of fetch_data.     *)
(***************************************************************************)
EXTENDS Integers, Sequences, FiniteSets, TLC

(***************************************************************************)
(* Program constants and the bounds of the model.                           *)
(***************************************************************************)
\* const MAX_RETRIES: u32 = 3
MAX_RETRIES == 3
\* const BACKOFF_FACTOR: f64 = 0.3 (seconds), kept in milliseconds
BACKOFF_FACTOR_MS == 300
\* the largest per-call `retries` override a caller passes in the model
MaxRetriesOverride == 3
\* how many times one clone of the client calls switch_account in the model
MaxSwitchCalls == 2
\* .buffer_unordered(3)
BUFFER_SIZE == 3
\* .unwrap_or(5): the page size when neither side names one
DEFAULT_PAGE_SIZE == 5
\* the largest total the initial response declares, and the largest `limit`
MaxTotalItems == 8
MaxLimit == 3
\* the width of usize (and of the u64 of as_u64) in the model, in bits; the
\* target's is 64
UsizeBits == 5
\* the largest page size a caller or a response names, and the largest total
\* of the collections read to the end without a limit
MaxPageSize == 5
MaxSmallTotal == 4

None == "None"

(***************************************************************************)
(* Names and values.                                                        *)
(***************************************************************************)
\* the requests (calls of send_request) and the clones of the client
Requests == {"r1", "r2"}
Clients == {"c1", "c2"}
\* impl Default for RetryConfig: 3 retries, one second between them
DEFAULT_RETRIES == 3
DEFAULT_DELAY_MS == 1000
DefaultRetryConfig == [retries |-> DEFAULT_RETRIES, delay |-> DEFAULT_DELAY_MS]
\* the threads that call an accessor made by singleton! or lazy_property!
Threads == {"t1", "t2", "t3"}

\* http::HeaderMap keeps its keys lower-cased; a key maps to the sequence of
\* its values (<<>> when the header is absent).
HeaderNames == {"authorization", "cookie", "user-agent"}
EmptyHeaderMap == [n \in HeaderNames |-> <<>>]

\* the value an entry holds while HeaderMap::insert is rewriting it
Incomplete == "<incomplete>"

\* the fields of struct Token, and a name outside them
Identities == {"average", "edu", "judgement", "blank"}
IdentityArgs == Identities \cup {"admin"}
\* tokens a caller passes; the last one holds a byte no header value may hold
TokenArgs == {"tokA", "tokB", "tok\nC"}
CookieArgs == {"sid=1", "sid=\n2"}

\* what one attempt can meet on the wire
TransportErrors == {"connect", "timeout"}
Statuses == {200, 204, 404, 500}
Bodies == {"body"}

(***************************************************************************)
(* State.                                                                   *)
(***************************************************************************)
VARIABLES
    \* --- shared by the clones of one client: Arc<Mutex<HeaderMap>>
    headers,        \* the header map
    lock,           \* the holder of the mutex, or None
    \* --- per clone: struct Token, and the call of switch_account in progress
    token,          \* token[c][identity]
    sw_pc,          \* "idle" | "match" | "lock" | "parse" | "insert" | "returned"
    sw_args,        \* [token, identity] of the call
    sw_result,      \* the Result<()> the call returned
    sw_calls,       \* how many calls the clone has made so far
    \* --- update_cookies (called through the first clone)
    uc_pc,          \* "idle" | "lock" | "remove" | "parse" | "insert" | "returned"
    uc_arg,
    uc_result,
    \* --- per call of send_request
    pc,             \* "idle" | "lock" | "clone" | "loop" | "backoff" | "returned"
    call_headers,   \* the per-call `headers` argument
    call_retries,   \* the per-call `retries` argument (None or a number)
    snapshot,       \* what self.headers.lock().clone() gave
    merged_headers,
    retries,
    attempt,
    last_error,
    result,
    \* --- history of the model (what was sent and slept, what a snapshot should see)
    sent,           \* per call: the outcomes of its attempts, in order
    sent_headers,   \* per call and attempt: the headers sent, and the shared set then
    sleeps,         \* per call: the backoff delays slept, in ms, in order
    stable,         \* the header map as it was when the mutex was last free
    last_switch,    \* the token of the latest completed Authorization insert
    seen_switch,    \* per call: last_switch when the snapshot was taken
    seen_stable,    \* per call: stable when the snapshot was taken
    \* --- fetch_data and the stream it returns
    fd_pc,          \* "idle" | "streaming" | "ended" | "failed" | "panicked"
    fd_limit,       \* the `limit` argument: <<>> or <<l>>
    fd_method,      \* the `pagination_method` argument
    fd_params,      \* the `params` argument
    fd_config,      \* the PaginationConfig in use
    fd_error,       \* the error fetch_data returned, NoError if none
    fd_total_key,   \* the `total_key` argument
    fd_initial,     \* what the initial request was answered with
    total_items,
    items_per_page,
    total_pages,
    next_page,      \* where stream::iter(0..total_pages) stands
    in_progress,    \* the pages whose futures buffer_unordered holds
    current,        \* the page stream flat_map is draining: <<>> or <<stream>>
    remaining,      \* what take(limit) has left
    \* --- history of the stream
    output,         \* the elements delivered to the consumer, in order
    requested,      \* the page indices a page request was sent for, in order
    page_params,    \* the params of those requests, in the same order
    fetched,        \* per page: <<>> or <<the response its future ended with>>
    \* --- the log side channel
    log_enabled,    \* settings.PARAMETER.log
    log_sink,       \* the records appended to the log file, in order
    \* --- decorator.rs: with_retry
    wr_pc,          \* "idle" | "loop" | "sleep" | "returned"
    wr_config,      \* the local `config`, after unwrap_or_default
    wr_i,           \* the loop variable i
    wr_last_error,  \* last_error: <<>> or <<e>>
    wr_result,      \* <<>> or <<what with_retry returned>>
    wr_calls,       \* history: the results of the invocations of f, in order
    wr_sleeps,      \* history: the delays slept, in order
    \* --- decorator.rs: the Once of singleton! and lazy_property!
    once_state,     \* ONCE: "incomplete" | "running" | "complete" | "poisoned"
    once_value,     \* the static INSTANCE / VALUE: <<>> or <<v>>
    th_pc,          \* per caller: where it stands in the accessor
    th_calls,       \* per caller: the calls it has made
    th_results,     \* history, per caller: the values its calls returned
    init_runs,      \* history: the runs of the initializer: by whom, with what outcome
    \* --- decorator.rs: Chunked
    ch_pc,          \* "idle" | "iterating" | "done"
    ch_inner,       \* what the inner iterator has left
    ch_size,        \* chunk_size
    ch_input,       \* history: the input sequence
    ch_chunks       \* history: the chunks next() has returned, in order

sharedVars == <<headers, lock>>
switchVars == <<token, sw_pc, sw_args, sw_result, sw_calls>>
cookieVars == <<uc_pc, uc_arg, uc_result>>
callVars == <<pc, call_headers, call_retries, snapshot, merged_headers,
              retries, attempt, last_error, result>>
histVars == <<sent, sent_headers, sleeps, stable, last_switch, seen_switch, seen_stable>>
fetchVars == <<fd_pc, fd_limit, fd_method, fd_params, fd_config, fd_error,
               fd_total_key, fd_initial,
               total_items, items_per_page, total_pages,
               next_page, in_progress, current, remaining, output, requested,
               page_params, fetched>>
logVars == <<log_enabled, log_sink>>
retryVars == <<wr_pc, wr_config, wr_i, wr_last_error, wr_result, wr_calls, wr_sleeps>>
onceVars == <<once_state, once_value, th_pc, th_calls, th_results, init_runs>>
chunkVars == <<ch_pc, ch_inner, ch_size, ch_input, ch_chunks>>
utilVars == <<retryVars, onceVars, chunkVars>>

(***************************************************************************)
(* http::HeaderMap and HeaderValue.                                         *)
(***************************************************************************)
\* HeaderName::from_bytes / the IntoHeaderName of a &str: keys are compared
\* without case, the map stores them lower-cased
HeaderName(s) ==
    CASE s \in {"Authorization", "AUTHORIZATION", "authorization"} -> "authorization"
      [] s \in {"Cookie", "COOKIE", "cookie"} -> "cookie"
      [] s \in {"User-Agent", "user-agent"} -> "user-agent"

\* HeaderValue::from_str: bytes 32..126 and tab only
ValidHeaderValue(s) == s \notin {"Bearer tok\nC", "sid=\n2"}

\* faulty variant: HeaderMap::append in the place of insert
HeaderInsert_Append(map, name, value) ==
    [map EXCEPT ![HeaderName(name)] = Append(@, value)]

\* HeaderMap::insert(name, value): the key then holds this one value
HeaderInsert(map, name, value) == [map EXCEPT ![HeaderName(name)] = <<value>>]

\* HeaderMap::remove(name)
HeaderRemove(map, name) == [map EXCEPT ![HeaderName(name)] = <<>>]

\* faulty variant: a key the map already holds keeps its values
HeaderExtend_SharedWins(map, other) ==
    [n \in HeaderNames |-> IF map[n] # <<>> THEN map[n] ELSE other[n]]

\* HeaderMap::extend(other): every key of `other` replaces the values the map
\* held for that key
HeaderExtend(map, other) ==
    [n \in HeaderNames |-> IF other[n] # <<>> THEN other[n] ELSE map[n]]

\* format!("Bearer {}", token)
Bearer(tok) == "Bearer " \o tok

(***************************************************************************)
(* Errors and results (enum AcquireError, Result<Response>).                *)
(***************************************************************************)
NoError == [kind |-> "None", status |-> 0, text |-> ""]
\* AcquireError::Http(e)
HttpError(e) == [kind |-> "Http", status |-> 0, text |-> e]
\* AcquireError::RequestFailed(format!("HTTP {} - {}", status, body))
RequestFailed(status, body) == [kind |-> "RequestFailed", status |-> status, text |-> body]
\* AcquireError::Unknown(msg)
UnknownError(msg) == [kind |-> "Unknown", status |-> 0, text |-> msg]
\* AcquireError::InvalidCookie
InvalidCookie == [kind |-> "InvalidCookie", status |-> 0, text |-> ""]

Pending == [state |-> "pending", status |-> 0, error |-> NoError]
Ok(status) == [state |-> "Ok", status |-> status, error |-> NoError]
Err(e) == [state |-> "Err", status |-> 0, error |-> e]

\* StatusCode::is_success
IsSuccess(status) == status >= 200 /\ status <= 299

\* what an attempt met: send() failed, or a response arrived (and, for a
\* response without success status, whether text() could read its body)
TransportOutcome(e) == [kind |-> "Transport", status |-> 0, text |-> e, body_read |-> FALSE]
ResponseOutcome(status, body, read) ==
    [kind |-> "Response", status |-> status, text |-> body, body_read |-> read]

(***************************************************************************)
(* send_request.                                                            *)
(***************************************************************************)
\* the per-call header arguments of the model: none, or an override of one key
CallHeaderArgs ==
    {<<>>,
     <<[EmptyHeaderMap EXCEPT !["authorization"] = <<"Bearer call">>]>>,
     <<[EmptyHeaderMap EXCEPT !["user-agent"] = <<"call-agent">>]>>}
CallRetryArgs == {<<>>} \cup {<<n>> : n \in 0..MaxRetriesOverride}

\* faulty variant: an override of 0 taken for "no override"
EffectiveRetries_ZeroIsDefault(opt) ==
    IF opt = <<>> \/ opt = <<0>> THEN MAX_RETRIES ELSE opt[1]

\* retries.unwrap_or(MAX_RETRIES)
EffectiveRetries(opt) == IF opt = <<>> THEN MAX_RETRIES ELSE opt[1]

\* faulty variant: the range taken one too far (0..=retries)
InRange_Inclusive(a, n) == a <= n

\* `for attempt in 0..retries`: the loop body runs while this holds
InRange(a, n) == a < n

\* faulty variant: a delay that grows linearly
BackoffMillis_Linear(a) == BACKOFF_FACTOR_MS * (a + 1)

\* Duration::from_secs_f64(BACKOFF_FACTOR * 2_f64.powi(attempt)), in ms
BackoffMillis(a) == BACKOFF_FACTOR_MS * (2 ^ a)

\* faulty variant: the map taken without waiting for the mutex
CanLock_Always(holder) == TRUE

\* Mutex::lock succeeds when no one holds the mutex
CanLock(holder) == holder = None

\* faulty variant: the shared header set read again for every attempt
AttemptHeaders_Reread(r) ==
    [sent |-> IF call_headers[r] = <<>> THEN headers
              ELSE HeaderExtend(headers, call_headers[r][1]),
     shared |-> headers]

\* request_builder.try_clone().unwrap().send(): the request carries the
\* headers given to the builder before the loop
AttemptHeaders(r) == [sent |-> merged_headers[r], shared |-> headers]

\* the call is made: arguments bound, nothing read yet
CallSendRequest(r, h, n) ==
    /\ pc[r] = "idle"
    /\ pc' = [pc EXCEPT ![r] = "lock"]
    /\ call_headers' = [call_headers EXCEPT ![r] = h]
    /\ call_retries' = [call_retries EXCEPT ![r] = n]
    /\ UNCHANGED <<snapshot, merged_headers, retries, attempt, last_error, result>>
    /\ UNCHANGED <<sharedVars, switchVars, cookieVars, histVars>>
    /\ UNCHANGED <<fetchVars, logVars, utilVars>>

\* self.headers.lock()
LockForSnapshot(r) ==
    /\ pc[r] = "lock"
    /\ CanLock(lock)
    /\ lock' = r
    /\ pc' = [pc EXCEPT ![r] = "clone"]
    /\ UNCHANGED <<headers, call_headers, call_retries, snapshot, merged_headers,
                   retries, attempt, last_error, result>>
    /\ UNCHANGED <<switchVars, cookieVars, histVars>>
    /\ UNCHANGED <<fetchVars, logVars, utilVars>>

\* .clone() under the guard, which is dropped at the end of the statement;
\* then merged_headers.extend(h), and the loop variables are set up
SnapshotHeaders(r) ==
    /\ pc[r] = "clone"
    /\ snapshot' = [snapshot EXCEPT ![r] = headers]
    /\ merged_headers' = [merged_headers EXCEPT ![r] =
            IF call_headers[r] = <<>> THEN headers
            ELSE HeaderExtend(headers, call_headers[r][1])]
    /\ lock' = None
    /\ retries' = [retries EXCEPT ![r] = EffectiveRetries(call_retries[r])]
    /\ last_error' = [last_error EXCEPT ![r] = NoError]
    /\ attempt' = [attempt EXCEPT ![r] = 0]
    /\ pc' = [pc EXCEPT ![r] = "loop"]
    /\ seen_switch' = [seen_switch EXCEPT ![r] = last_switch]
    /\ seen_stable' = [seen_stable EXCEPT ![r] = stable]
    /\ UNCHANGED <<headers, call_headers, call_retries, result>>
    /\ UNCHANGED <<switchVars, cookieVars, sent, sent_headers, sleeps, stable, last_switch>>
    /\ UNCHANGED <<fetchVars, logVars, utilVars>>

\* faulty variant: the success arm without its `return`
AttemptSuccess_NoReturn(r, status) ==
    /\ pc[r] = "loop"
    /\ InRange(attempt[r], retries[r])
    /\ IsSuccess(status)
    /\ sent' = [sent EXCEPT ![r] = Append(@, ResponseOutcome(status, "", FALSE))]
    /\ sent_headers' = [sent_headers EXCEPT ![r] = Append(@, AttemptHeaders(r))]
    /\ attempt' = [attempt EXCEPT ![r] = @ + 1]
    /\ UNCHANGED <<pc, call_headers, call_retries, snapshot, merged_headers, retries,
                   last_error, result>>
    /\ UNCHANGED <<sharedVars, switchVars, cookieVars, sleeps, stable,
                   last_switch, seen_switch, seen_stable>>
    /\ UNCHANGED <<fetchVars, logVars, utilVars>>

\* send() gave Ok(response) with a success status: return Ok(response)
AttemptSuccess(r, status) ==
    /\ pc[r] = "loop"
    /\ InRange(attempt[r], retries[r])
    /\ IsSuccess(status)
    /\ sent' = [sent EXCEPT ![r] = Append(@, ResponseOutcome(status, "", FALSE))]
    /\ sent_headers' = [sent_headers EXCEPT ![r] = Append(@, AttemptHeaders(r))]
    /\ result' = [result EXCEPT ![r] = Ok(status)]
    /\ pc' = [pc EXCEPT ![r] = "returned"]
    /\ UNCHANGED <<call_headers, call_retries, snapshot, merged_headers, retries,
                   attempt, last_error>>
    /\ UNCHANGED <<sharedVars, switchVars, cookieVars, sleeps, stable,
                   last_switch, seen_switch, seen_stable>>
    /\ UNCHANGED <<fetchVars, logVars, utilVars>>

\* send() gave Ok(response) without success status and text() read its body:
\* last_error = RequestFailed, next iteration
AttemptStatus(r, status, body) ==
    /\ pc[r] = "loop"
    /\ InRange(attempt[r], retries[r])
    /\ ~IsSuccess(status)
    /\ sent' = [sent EXCEPT ![r] = Append(@, ResponseOutcome(status, body, TRUE))]
    /\ sent_headers' = [sent_headers EXCEPT ![r] = Append(@, AttemptHeaders(r))]
    /\ last_error' = [last_error EXCEPT ![r] = RequestFailed(status, body)]
    /\ attempt' = [attempt EXCEPT ![r] = @ + 1]
    /\ UNCHANGED <<pc, call_headers, call_retries, snapshot, merged_headers, retries,
                   result>>
    /\ UNCHANGED <<sharedVars, switchVars, cookieVars, sleeps, stable,
                   last_switch, seen_switch, seen_stable>>
    /\ UNCHANGED <<fetchVars, logVars, utilVars>>

\* faulty variant: a body that cannot be read is one more failed attempt
AttemptStatusBodyError_Retried(r, status, e) ==
    /\ pc[r] = "loop"
    /\ InRange(attempt[r], retries[r])
    /\ ~IsSuccess(status)
    /\ sent' = [sent EXCEPT ![r] = Append(@, ResponseOutcome(status, e, FALSE))]
    /\ sent_headers' = [sent_headers EXCEPT ![r] = Append(@, AttemptHeaders(r))]
    /\ last_error' = [last_error EXCEPT ![r] = HttpError(e)]
    /\ attempt' = [attempt EXCEPT ![r] = @ + 1]
    /\ UNCHANGED <<pc, call_headers, call_retries, snapshot, merged_headers, retries,
                   result>>
    /\ UNCHANGED <<sharedVars, switchVars, cookieVars, sleeps, stable,
                   last_switch, seen_switch, seen_stable>>
    /\ UNCHANGED <<fetchVars, logVars, utilVars>>

\* send() gave Ok(response) without success status and text() failed: the `?`
\* returns that error from send_request
AttemptStatusBodyError(r, status, e) ==
    /\ pc[r] = "loop"
    /\ InRange(attempt[r], retries[r])
    /\ ~IsSuccess(status)
    /\ sent' = [sent EXCEPT ![r] = Append(@, ResponseOutcome(status, e, FALSE))]
    /\ sent_headers' = [sent_headers EXCEPT ![r] = Append(@, AttemptHeaders(r))]
    /\ result' = [result EXCEPT ![r] = Err(HttpError(e))]
    /\ pc' = [pc EXCEPT ![r] = "returned"]
    /\ UNCHANGED <<call_headers, call_retries, snapshot, merged_headers, retries,
                   attempt, last_error>>
    /\ UNCHANGED <<sharedVars, switchVars, cookieVars, sleeps, stable,
                   last_switch, seen_switch, seen_stable>>
    /\ UNCHANGED <<fetchVars, logVars, utilVars>>

\* send() gave Err(e): last_error = Http(e), then sleep(BACKOFF_FACTOR * 2^attempt)
AttemptTransportError(r, e) ==
    /\ pc[r] = "loop"
    /\ InRange(attempt[r], retries[r])
    /\ sent' = [sent EXCEPT ![r] = Append(@, TransportOutcome(e))]
    /\ sent_headers' = [sent_headers EXCEPT ![r] = Append(@, AttemptHeaders(r))]
    /\ last_error' = [last_error EXCEPT ![r] = HttpError(e)]
    /\ sleeps' = [sleeps EXCEPT ![r] = Append(@, BackoffMillis(attempt[r]))]
    /\ pc' = [pc EXCEPT ![r] = "backoff"]
    /\ UNCHANGED <<call_headers, call_retries, snapshot, merged_headers, retries,
                   attempt, result>>
    /\ UNCHANGED <<sharedVars, switchVars, cookieVars, stable, last_switch,
                   seen_switch, seen_stable>>
    /\ UNCHANGED <<fetchVars, logVars, utilVars>>

\* the sleep is over: next iteration
BackoffElapsed(r) ==
    /\ pc[r] = "backoff"
    /\ attempt' = [attempt EXCEPT ![r] = @ + 1]
    /\ pc' = [pc EXCEPT ![r] = "loop"]
    /\ UNCHANGED <<call_headers, call_retries, snapshot, merged_headers, retries,
                   last_error, result>>
    /\ UNCHANGED <<sharedVars, switchVars, cookieVars, histVars>>
    /\ UNCHANGED <<fetchVars, logVars, utilVars>>

\* the range is used up:
\* Err(last_error.unwrap_or_else(|| Unknown("Maximum retries exceeded")))
RetriesUsedUp(r) ==
    /\ pc[r] = "loop"
    /\ ~InRange(attempt[r], retries[r])
    /\ result' = [result EXCEPT ![r] =
            IF last_error[r] = NoError
            THEN Err(UnknownError("Maximum retries exceeded"))
            ELSE Err(last_error[r])]
    /\ pc' = [pc EXCEPT ![r] = "returned"]
    /\ UNCHANGED <<call_headers, call_retries, snapshot, merged_headers, retries,
                   attempt, last_error>>
    /\ UNCHANGED <<sharedVars, switchVars, cookieVars, histVars>>
    /\ UNCHANGED <<fetchVars, logVars, utilVars>>

\* one attempt of the call, whatever it meets
Attempt(r) ==
    \/ \E status \in Statuses : AttemptSuccess(r, status)
    \/ \E status \in Statuses, body \in Bodies : AttemptStatus(r, status, body)
    \/ \E status \in Statuses, e \in TransportErrors : AttemptStatusBodyError(r, status, e)
    \/ \E e \in TransportErrors : AttemptTransportError(r, e)

(***************************************************************************)
(* switch_account (on one clone, `&mut self`) and update_cookies.  Both     *)
(* write the shared header map under its mutex.  HeaderMap::insert is not   *)
(* one memory operation: between its start and its end the entry is         *)
(* Incomplete, which only a reader that does not hold the mutex could see.  *)
(***************************************************************************)
\* the call is made: arguments bound
CallSwitchAccount(c, tok, identity) ==
    /\ sw_pc[c] \in {"idle", "returned"}
    /\ sw_calls[c] < MaxSwitchCalls
    /\ sw_calls' = [sw_calls EXCEPT ![c] = @ + 1]
    /\ sw_args' = [sw_args EXCEPT ![c] = [token |-> tok, identity |-> identity]]
    /\ sw_result' = [sw_result EXCEPT ![c] = Pending]
    /\ sw_pc' = [sw_pc EXCEPT ![c] = "match"]
    /\ UNCHANGED <<token, sharedVars, cookieVars, callVars, histVars>>
    /\ UNCHANGED <<fetchVars, logVars, utilVars>>

\* faulty variant: the default arm of the match stores into the `blank` slot
SwitchMatch_DefaultBlank(c) ==
    /\ sw_pc[c] = "match"
    /\ LET slot == IF sw_args[c].identity \in Identities
                   THEN sw_args[c].identity ELSE "blank"
       IN token' = [token EXCEPT ![c][slot] = sw_args[c].token]
    /\ sw_pc' = [sw_pc EXCEPT ![c] = "lock"]
    /\ UNCHANGED <<sw_args, sw_result, sw_calls>>
    /\ UNCHANGED <<sharedVars, cookieVars, callVars, histVars>>
    /\ UNCHANGED <<fetchVars, logVars, utilVars>>

\* match identity { "average" => self.token.average = token, ...,
\*                  _ => return Err(Unknown("Invalid identity")) }
SwitchMatch(c) ==
    /\ sw_pc[c] = "match"
    /\ IF sw_args[c].identity \in Identities
       THEN /\ token' = [token EXCEPT ![c][sw_args[c].identity] = sw_args[c].token]
            /\ sw_pc' = [sw_pc EXCEPT ![c] = "lock"]
            /\ UNCHANGED sw_result
       ELSE /\ sw_result' = [sw_result EXCEPT ![c] = Err(UnknownError("Invalid identity"))]
            /\ sw_pc' = [sw_pc EXCEPT ![c] = "returned"]
            /\ UNCHANGED token
    /\ UNCHANGED <<sw_args, sw_calls>>
    /\ UNCHANGED <<sharedVars, cookieVars, callVars, histVars>>
    /\ UNCHANGED <<fetchVars, logVars, utilVars>>

\* let mut headers = self.headers.lock();
SwitchLock(c) ==
    /\ sw_pc[c] = "lock"
    /\ CanLock(lock)
    /\ lock' = c
    /\ sw_pc' = [sw_pc EXCEPT ![c] = "parse"]
    /\ UNCHANGED <<headers, token, sw_args, sw_result, sw_calls>>
    /\ UNCHANGED <<cookieVars, callVars, histVars>>
    /\ UNCHANGED <<fetchVars, logVars, utilVars>>

\* format!("Bearer {}", token).parse() fails: `?` returns InvalidCookie and
\* the guard is dropped
SwitchParseError(c) ==
    /\ sw_pc[c] = "parse"
    /\ ~ValidHeaderValue(Bearer(sw_args[c].token))
    /\ sw_result' = [sw_result EXCEPT ![c] = Err(InvalidCookie)]
    /\ sw_pc' = [sw_pc EXCEPT ![c] = "returned"]
    /\ lock' = None
    /\ stable' = headers
    /\ UNCHANGED <<headers, token, sw_args, sw_calls>>
    /\ UNCHANGED <<cookieVars, callVars, sent, sent_headers, sleeps, last_switch, seen_switch, seen_stable>>
    /\ UNCHANGED <<fetchVars, logVars, utilVars>>

\* the value parsed: headers.insert(AUTHORIZATION, value) starts
SwitchInsertBegin(c) ==
    /\ sw_pc[c] = "parse"
    /\ ValidHeaderValue(Bearer(sw_args[c].token))
    /\ headers' = HeaderInsert(headers, "authorization", Incomplete)
    /\ sw_pc' = [sw_pc EXCEPT ![c] = "insert"]
    /\ UNCHANGED <<lock, token, sw_args, sw_result, sw_calls>>
    /\ UNCHANGED <<cookieVars, callVars, histVars>>
    /\ UNCHANGED <<fetchVars, logVars, utilVars>>

\* the insert is done; Ok(()) is returned and the guard is dropped
SwitchInsertEnd(c) ==
    /\ sw_pc[c] = "insert"
    /\ headers' = HeaderInsert(headers, "authorization", Bearer(sw_args[c].token))
    /\ sw_result' = [sw_result EXCEPT ![c] = Ok(0)]
    /\ sw_pc' = [sw_pc EXCEPT ![c] = "returned"]
    /\ lock' = None
    /\ stable' = headers'
    /\ last_switch' = sw_args[c].token
    /\ UNCHANGED <<token, sw_args, sw_calls>>
    /\ UNCHANGED <<cookieVars, callVars, sent, sent_headers, sleeps, seen_switch, seen_stable>>
    /\ UNCHANGED <<fetchVars, logVars, utilVars>>

\* update_cookies(cookies): the call is made
CallUpdateCookies(cookies) ==
    /\ uc_pc = "idle"
    /\ uc_arg' = cookies
    /\ uc_pc' = "lock"
    /\ UNCHANGED <<uc_result, sharedVars, switchVars, callVars, histVars>>
    /\ UNCHANGED <<fetchVars, logVars, utilVars>>

\* let mut headers = self.headers.lock();
CookieLock ==
    /\ uc_pc = "lock"
    /\ CanLock(lock)
    /\ lock' = "uc"
    /\ uc_pc' = "remove"
    /\ UNCHANGED <<headers, uc_arg, uc_result, switchVars, callVars, histVars>>
    /\ UNCHANGED <<fetchVars, logVars, utilVars>>

\* headers.remove("Cookie");
CookieRemove ==
    /\ uc_pc = "remove"
    /\ headers' = HeaderRemove(headers, "Cookie")
    /\ uc_pc' = "parse"
    /\ UNCHANGED <<lock, uc_arg, uc_result, switchVars, callVars, histVars>>
    /\ UNCHANGED <<fetchVars, logVars, utilVars>>

\* cookies.parse() fails: `?` returns InvalidCookie and the guard is dropped
CookieParseError ==
    /\ uc_pc = "parse"
    /\ ~ValidHeaderValue(uc_arg)
    /\ uc_result' = Err(InvalidCookie)
    /\ uc_pc' = "returned"
    /\ lock' = None
    /\ stable' = headers
    /\ UNCHANGED <<headers, uc_arg, switchVars, callVars, sent, sent_headers, sleeps, last_switch,
                   seen_switch, seen_stable>>
    /\ UNCHANGED <<fetchVars, logVars, utilVars>>

\* the value parsed: headers.insert("Cookie", value) starts
CookieInsertBegin ==
    /\ uc_pc = "parse"
    /\ ValidHeaderValue(uc_arg)
    /\ headers' = HeaderInsert(headers, "Cookie", Incomplete)
    /\ uc_pc' = "insert"
    /\ UNCHANGED <<lock, uc_arg, uc_result, switchVars, callVars, histVars>>
    /\ UNCHANGED <<fetchVars, logVars, utilVars>>

\* the insert is done; Ok(()) is returned and the guard is dropped
CookieInsertEnd ==
    /\ uc_pc = "insert"
    /\ headers' = HeaderInsert(headers, "Cookie", uc_arg)
    /\ uc_result' = Ok(0)
    /\ uc_pc' = "returned"
    /\ lock' = None
    /\ stable' = headers'
    /\ UNCHANGED <<uc_arg, switchVars, callVars, sent, sent_headers, sleeps, last_switch, seen_switch, seen_stable>>
    /\ UNCHANGED <<fetchVars, logVars, utilVars>>


(***************************************************************************)
(* fetch_data: the initial request, the plan, and the stream                *)
(*   iter(0..total_pages).map(page future).buffer_unordered(3)              *)
(*     .flat_map(page stream or one error) [.take(limit)]                   *)
(* as the consumer polls it.                                                *)
(***************************************************************************)
\* serde_json values as far as fetch_data looks at them.  A document is a
\* function from the paths of its nodes (the keys from the root down) to the
\* node found there; the children of an object are the paths one key longer.
JsonNumber(n) == [t |-> "number", v |-> n]
JsonString == [t |-> "string", v |-> 0]
JsonObject == [t |-> "object", v |-> 0]
JsonNull == [t |-> "null", v |-> 0]

\* json!({}) and a document of one node
EmptyObject == (<<>> :> JsonObject)
Scalar(node) == (<<>> :> node)

\* the document `data` with `node` as the member `key` of the object at `at`
WithMember(data, at, key, node) == (Append(at, key) :> node) @@ data

\* usize::MAX + 1 for the width of the model
UsizeModulus == 2 ^ UsizeBits

\* Value::as_u64: Some for a non-negative integer only
AsU64(j) == IF j.t = "number" /\ j.v >= 0 THEN <<j.v>> ELSE <<>>

\* faulty variant: a value that is missing or no count is read as 0
AndThenAsU64_OrZero(opt) ==
    IF opt = <<>> THEN <<0>> ELSE IF AsU64(opt[1]) = <<>> THEN <<0>> ELSE AsU64(opt[1])

\* Option::and_then(|v| v.as_u64())
AndThenAsU64(opt) == IF opt = <<>> THEN <<>> ELSE AsU64(opt[1])

\* Value::get(key): the member of an object, None for anything else
ValueGet(data, key) ==
    IF data[<<>>].t = "object" /\ <<key>> \in DOMAIN data
    THEN <<data[<<key>>]>> ELSE <<>>

\* value[key] = node (IndexMut for a string key): an object gets or replaces
\* the member, null turns into an object first; any other value panics and
\* is not among the params of the model
IndexSet(data, key, node) ==
    LET kept == {q \in DOMAIN data : q = <<>> \/ q[1] # key} IN
    [q \in kept \cup {<<key>>} |->
        IF q = <<>> THEN JsonObject ELSE IF q = <<key>> THEN node ELSE data[q]]

\* path.split('.'): a path is kept as its pieces, "." being the separator;
\* the text between two separators is one key (the empty text too)
RECURSIVE SplitDots(_, _)
SplitDots(path, key) ==
    IF path = <<>> THEN <<key>>
    ELSE IF Head(path) = "." THEN <<key>> \o SplitDots(Tail(path), "")
    ELSE SplitDots(Tail(path), key \o Head(path))

\* the loop of get_nested_value from the node at `at` on
RECURSIVE NestedFrom(_, _, _)
NestedFrom(data, at, keys) ==
    IF keys = <<>> THEN <<data[at]>>
    ELSE IF data[at].t = "object" /\ Append(at, Head(keys)) \in DOMAIN data
    THEN NestedFrom(data, Append(at, Head(keys)), Tail(keys))
    ELSE <<>>

\* DataProcessor::get_nested_value(data, path)
get_nested_value(data, path) == NestedFrom(data, <<>>, SplitDots(path, ""))

\* config.unwrap_or_else(|| PaginationConfig { .. })
DefaultConfig(method) ==
    [amount_key |-> "limit",
     offset_key |-> IF method = "GET" THEN "offset" ELSE "current_page",
     response_amount_key |-> "limit",
     response_offset_key |-> "offset"]
UnwrapConfig(config, method) == IF config = <<>> THEN DefaultConfig(method) ELSE config[1]

\* params.get(amount_key).and_then(as_u64)
\*   .unwrap_or(initial_data.get(response_amount_key).and_then(as_u64).unwrap_or(5))
ItemsPerPage(params_amount, response_amount) ==
    IF AndThenAsU64(params_amount) # <<>> THEN AndThenAsU64(params_amount)[1]
    ELSE IF AndThenAsU64(response_amount) # <<>> THEN AndThenAsU64(response_amount)[1]
    ELSE DEFAULT_PAGE_SIZE

\* (total_items + items_per_page - 1) / items_per_page in usize, as a build
\* without overflow checks computes it
TotalPages(total, per_page) == ((total + per_page - 1) % UsizeModulus) \div per_page

\* the sum leaves usize: a build with overflow checks panics here
TotalPagesOverflows(total, per_page) == total + per_page >= UsizeModulus

JsonError == [kind |-> "Json", status |-> 0, text |-> ""]
Panic(text) == [kind |-> "Panic", status |-> 0, text |-> text]

\* what fetch_data does before it builds the stream: the initial request, its
\* JSON, the total, the page size, the number of pages.  `initial` is what the
\* server answers: [request, data]
FetchPlan(params, method, total_key, config, initial, overflow_checks) ==
    LET total == AndThenAsU64(get_nested_value(initial.data, total_key))
        cfg == UnwrapConfig(config, method)
        per_page == ItemsPerPage(ValueGet(params, cfg.amount_key),
                                 ValueGet(initial.data, cfg.response_amount_key))
        none == [ok |-> FALSE, error |-> NoError, total_items |-> 0,
                 items_per_page |-> 0, total_pages |-> 0]
    IN  IF initial.request = "error"
        THEN [none EXCEPT !.error = HttpError("initial")]
        ELSE IF initial.request = "bad_json"
        THEN [none EXCEPT !.error = JsonError]
        ELSE IF total = <<>>
        THEN [none EXCEPT !.error = UnknownError("Failed to get total items")]
        ELSE IF per_page <= 0
        THEN [none EXCEPT !.error = UnknownError("Invalid items per page"),
                          !.total_items = total[1], !.items_per_page = per_page]
        ELSE IF overflow_checks /\ TotalPagesOverflows(total[1], per_page)
        THEN [none EXCEPT !.error = Panic("attempt to add with overflow"),
                          !.total_items = total[1], !.items_per_page = per_page]
        ELSE [ok |-> TRUE, error |-> NoError, total_items |-> total[1],
              items_per_page |-> per_page,
              total_pages |-> TotalPages(total[1], per_page)]

\* faulty variant: the offset key set beside the original keys under a new name
PageParams_Added(params, config, pagination_method, page, per_page) ==
    IndexSet(IndexSet(params, config.offset_key, JsonNumber(page)),
             "page_size", JsonNumber(per_page))

\* page_params of the map closure: params.clone() with
\* page_params[offset_key] = json!(page * items_per_page) or json!(page + 1)
PageParams(params, config, pagination_method, page, per_page) ==
    IF pagination_method = "offset"
    THEN IndexSet(params, config.offset_key, JsonNumber((page * per_page) % UsizeModulus))
    ELSE IF pagination_method = "page"
    THEN IndexSet(params, config.offset_key, JsonNumber((page + 1) % UsizeModulus))
    ELSE params

\* the strategies the match on pagination_method knows
SupportedMethods == {"offset", "page"}

\* what the future of a page ends with, by the response to its request:
\* an array under data_key, data_key holding something else, no data_key,
\* a body that is not JSON, or send_request failing
ArrayResponse(items) == [kind |-> "array", items |-> items]
NotArrayResponse == [kind |-> "not_array", items |-> <<>>]
MissingKeyResponse == [kind |-> "missing_key", items |-> <<>>]
BadJsonResponse == [kind |-> "bad_json", items |-> <<>>]
RequestErrorResponse == [kind |-> "request_error", items |-> <<>>]
\* the closure's `_` arm: no request, the page is one error
UnsupportedMethod == [kind |-> "unsupported", items |-> <<>>]

\* the error a page ends with when it yields no page stream
PageError(response) ==
    IF response.kind = "unsupported" THEN UnknownError("Unsupported pagination method")
    ELSE IF response.kind = "missing_key" THEN UnknownError("Data key not found")
    ELSE IF response.kind = "bad_json" THEN JsonError
    ELSE HttpError("page")

\* serde_json::from_value(item.clone()).map_err(AcquireError::Json)
DecodeItem(page, i, item) ==
    IF item = "ok"
    THEN [page |-> page, index |-> i, kind |-> "item", error |-> NoError]
    ELSE [page |-> page, index |-> i, kind |-> "decode_error", error |-> JsonError]

\* faulty variant: a page of an unknown strategy is passed over in silence
PageElements_SkipUnsupported(page, response) ==
    IF response.kind = "array"
    THEN [i \in 1..Len(response.items) |-> DecodeItem(page, i, response.items[i])]
    ELSE IF response.kind \in {"not_array", "unsupported"} THEN <<>>
    ELSE <<[page |-> page, index |-> 0, kind |-> "page_error",
            error |-> PageError(response)]>>

\* faulty variant: a response without data_key is taken for an empty page
PageElements_MissingKeyEmpty(page, response) ==
    IF response.kind = "array"
    THEN [i \in 1..Len(response.items) |-> DecodeItem(page, i, response.items[i])]
    ELSE IF response.kind \in {"not_array", "missing_key"} THEN <<>>
    ELSE <<[page |-> page, index |-> 0, kind |-> "page_error",
            error |-> PageError(response)]>>

\* faulty variant: the elements of the array from its last to its first
PageElements_Reversed(page, response) ==
    IF response.kind = "array"
    THEN [i \in 1..Len(response.items) |->
            DecodeItem(page, Len(response.items) + 1 - i,
                       response.items[Len(response.items) + 1 - i])]
    ELSE IF response.kind = "not_array" THEN <<>>
    ELSE <<[page |-> page, index |-> 0, kind |-> "page_error",
            error |-> PageError(response)]>>

\* faulty variant: a data_key value that is no array fails its page
PageElements_NotArrayIsError(page, response) ==
    IF response.kind = "array"
    THEN [i \in 1..Len(response.items) |-> DecodeItem(page, i, response.items[i])]
    ELSE <<[page |-> page, index |-> 0, kind |-> "page_error",
            error |-> PageError(response)]>>

\* the elements the page contributes to flat_map: the array's elements in
\* order, each decoded (an error where serde_json::from_value fails); no
\* element for a value that is not an array; one error for a failed page
PageElements(page, response) ==
    IF response.kind = "array"
    THEN [i \in 1..Len(response.items) |-> DecodeItem(page, i, response.items[i])]
    ELSE IF response.kind = "not_array" THEN <<>>
    ELSE <<[page |-> page, index |-> 0, kind |-> "page_error",
            error |-> PageError(response)]>>

\* faulty variant: one more future than the buffer size is let in
BufferHasRoom_OneMore(n) == n <= BUFFER_SIZE

\* BufferUnordered::poll_next: `while in_progress_queue.len() < max`
BufferHasRoom(n) == n < BUFFER_SIZE

\* faulty variant: take(limit) that lets the element after the last one through
TakeHasRemaining_OneMore(limit, left) == limit = <<>> \/ left >= 0

\* Take::poll_next goes on to the inner stream only while remaining > 0
\* (no take at all when limit is None)
TakeHasRemaining(limit, left) == limit = <<>> \/ left > 0

\* the take_while of a page stream: yielded_count <= l
TakeWhilePasses(limit, count) == limit = <<>> \/ count <= limit[1]

\* fetch_data(...) up to `Ok(stream)`, or its error
FetchData(params, limit, method, total_key, pagination_method, config, initial, overflow_checks) ==
    /\ fd_pc = "idle"
    /\ LET plan == FetchPlan(params, method, total_key, config, initial, overflow_checks) IN
        /\ fd_pc' = IF plan.ok THEN "streaming"
                     ELSE IF plan.error.kind = "Panic" THEN "panicked" ELSE "failed"
        /\ fd_error' = plan.error
        /\ total_items' = plan.total_items
        /\ items_per_page' = plan.items_per_page
        /\ total_pages' = plan.total_pages
        /\ fetched' = [q \in 0..(plan.total_pages - 1) |-> <<>>]
    /\ fd_limit' = limit
    /\ fd_method' = pagination_method
    /\ fd_params' = params
    /\ fd_config' = UnwrapConfig(config, method)
    /\ fd_total_key' = total_key
    /\ fd_initial' = initial
    /\ remaining' = IF limit = <<>> THEN 0 ELSE limit[1]
    /\ UNCHANGED <<next_page, in_progress, current, output, requested, page_params>>
    /\ UNCHANGED <<sharedVars, switchVars, cookieVars, callVars, histVars, logVars, utilVars>>

\* faulty variant: the buffer polled although take(limit) has nothing left
SpawnPage_PastLimit ==
    /\ fd_pc = "streaming"
    /\ current = <<>>
    /\ BufferHasRoom(Cardinality(in_progress))
    /\ next_page < total_pages
    /\ in_progress' = in_progress \cup {next_page}
    /\ next_page' = next_page + 1
    /\ requested' = IF fd_method \in SupportedMethods
                    THEN Append(requested, next_page) ELSE requested
    /\ page_params' = IF fd_method \in SupportedMethods
                      THEN Append(page_params,
                                  PageParams(fd_params, fd_config, fd_method, next_page,
                                             items_per_page))
                      ELSE page_params
    /\ UNCHANGED <<fd_pc, fd_limit, fd_method, fd_params, fd_config, fd_error,
                   fd_total_key, fd_initial,
                   total_items, items_per_page, total_pages,
                   current, remaining, output, fetched>>
    /\ UNCHANGED <<sharedVars, switchVars, cookieVars, callVars, histVars, logVars, utilVars>>

\* faulty variant: page 0 is served from the initial response, without a
\* request of its own
SpawnPage_ReusesSeed ==
    /\ fd_pc = "streaming"
    /\ TakeHasRemaining(fd_limit, remaining)
    /\ current = <<>>
    /\ BufferHasRoom(Cardinality(in_progress))
    /\ next_page < total_pages
    /\ in_progress' = in_progress \cup {next_page}
    /\ next_page' = next_page + 1
    /\ requested' = IF fd_method \in SupportedMethods /\ next_page # 0
                    THEN Append(requested, next_page) ELSE requested
    /\ page_params' = IF fd_method \in SupportedMethods /\ next_page # 0
                      THEN Append(page_params,
                                  PageParams(fd_params, fd_config, fd_method, next_page,
                                             items_per_page))
                      ELSE page_params
    /\ UNCHANGED <<fd_pc, fd_limit, fd_method, fd_params, fd_config, fd_error,
                   fd_total_key, fd_initial,
                   total_items, items_per_page, total_pages,
                   current, remaining, output, fetched>>
    /\ UNCHANGED <<sharedVars, switchVars, cookieVars, callVars, histVars, logVars, utilVars>>

\* buffer_unordered takes the next future from the map over 0..total_pages;
\* with a supported strategy the page's request goes out
SpawnPage ==
    /\ fd_pc = "streaming"
    /\ TakeHasRemaining(fd_limit, remaining)
    /\ current = <<>>
    /\ BufferHasRoom(Cardinality(in_progress))
    /\ next_page < total_pages
    /\ in_progress' = in_progress \cup {next_page}
    /\ next_page' = next_page + 1
    /\ requested' = IF fd_method \in SupportedMethods
                    THEN Append(requested, next_page) ELSE requested
    /\ page_params' = IF fd_method \in SupportedMethods
                      THEN Append(page_params,
                                  PageParams(fd_params, fd_config, fd_method, next_page,
                                             items_per_page))
                      ELSE page_params
    /\ UNCHANGED <<fd_pc, fd_limit, fd_method, fd_params, fd_config, fd_error,
                   fd_total_key, fd_initial,
                   total_items, items_per_page, total_pages,
                   current, remaining, output, fetched>>
    /\ UNCHANGED <<sharedVars, switchVars, cookieVars, callVars, histVars, logVars, utilVars>>

\* faulty variant: a page that ends while another page stream is open puts
\* its elements in front of what that stream has left
PageCompletes_Merging(page, response) ==
    /\ fd_pc = "streaming"
    /\ TakeHasRemaining(fd_limit, remaining)
    /\ page \in in_progress
    /\ (response.kind = "unsupported") <=> (fd_method \notin SupportedMethods)
    /\ in_progress' = in_progress \ {page}
    /\ fetched' = [fetched EXCEPT ![page] = <<response>>]
    /\ current' = <<[page |-> page,
                     items |-> PageElements(page, response)
                               \o (IF current = <<>> THEN <<>> ELSE current[1].items),
                     yielded_count |-> 0]>>
    /\ UNCHANGED <<fd_pc, fd_limit, fd_method, fd_params, fd_config, fd_error,
                   fd_total_key, fd_initial,
                   total_items, items_per_page, total_pages,
                   next_page, remaining, output, requested, page_params>>
    /\ UNCHANGED <<sharedVars, switchVars, cookieVars, callVars, histVars, logVars, utilVars>>

\* once the buffer is full or the pages are used up, the futures are polled:
\* one of them ends, and flat_map turns its result into the stream it drains
PageCompletes(page, response) ==
    /\ fd_pc = "streaming"
    /\ TakeHasRemaining(fd_limit, remaining)
    /\ current = <<>>
    /\ ~(BufferHasRoom(Cardinality(in_progress)) /\ next_page < total_pages)
    /\ page \in in_progress
    /\ (response.kind = "unsupported") <=> (fd_method \notin SupportedMethods)
    /\ in_progress' = in_progress \ {page}
    /\ fetched' = [fetched EXCEPT ![page] = <<response>>]
    /\ current' = <<[page |-> page, items |-> PageElements(page, response),
                     yielded_count |-> 0]>>
    /\ UNCHANGED <<fd_pc, fd_limit, fd_method, fd_params, fd_config, fd_error,
                   fd_total_key, fd_initial,
                   total_items, items_per_page, total_pages,
                   next_page, remaining, output, requested, page_params>>
    /\ UNCHANGED <<sharedVars, switchVars, cookieVars, callVars, histVars, logVars, utilVars>>

\* faulty variant: an element that fails to decode ends its page
EmitElement_StopAtError ==
    /\ fd_pc = "streaming"
    /\ TakeHasRemaining(fd_limit, remaining)
    /\ current # <<>>
    /\ current[1].items # <<>>
    /\ output' = Append(output, Head(current[1].items))
    /\ remaining' = IF fd_limit = <<>> THEN remaining ELSE remaining - 1
    /\ current' = <<[current[1] EXCEPT
                        !.items = IF Head(@).kind = "item" THEN Tail(@) ELSE <<>>,
                        !.yielded_count = @ + 1]>>
    /\ UNCHANGED <<fd_pc, fd_limit, fd_method, fd_params, fd_config, fd_error,
                   fd_total_key, fd_initial,
                   total_items, items_per_page, total_pages,
                   next_page, in_progress, requested, page_params, fetched>>
    /\ UNCHANGED <<sharedVars, switchVars, cookieVars, callVars, histVars, logVars, utilVars>>

\* faulty variant: take(limit) counts the items only, errors pass for free
EmitElement_ErrorsFree ==
    /\ fd_pc = "streaming"
    /\ TakeHasRemaining(fd_limit, remaining)
    /\ current # <<>>
    /\ current[1].items # <<>>
    /\ IF TakeWhilePasses(fd_limit, current[1].yielded_count + 1)
       THEN /\ output' = Append(output, Head(current[1].items))
            /\ remaining' = IF fd_limit = <<>> \/ Head(current[1].items).kind # "item"
                            THEN remaining ELSE remaining - 1
            /\ current' = <<[current[1] EXCEPT !.items = Tail(@),
                                               !.yielded_count = @ + 1]>>
       ELSE /\ current' = <<>>
            /\ UNCHANGED <<output, remaining>>
    /\ UNCHANGED <<fd_pc, fd_limit, fd_method, fd_params, fd_config, fd_error,
                   fd_total_key, fd_initial,
                   total_items, items_per_page, total_pages,
                   next_page, in_progress, requested, page_params, fetched>>
    /\ UNCHANGED <<sharedVars, switchVars, cookieVars, callVars, histVars, logVars, utilVars>>

\* the page stream has an element: take_while counts it and lets it through
\* (or ends the page stream), take hands it to the consumer
EmitElement ==
    /\ fd_pc = "streaming"
    /\ TakeHasRemaining(fd_limit, remaining)
    /\ current # <<>>
    /\ current[1].items # <<>>
    /\ IF TakeWhilePasses(fd_limit, current[1].yielded_count + 1)
       THEN /\ output' = Append(output, Head(current[1].items))
            /\ remaining' = IF fd_limit = <<>> THEN remaining ELSE remaining - 1
            /\ current' = <<[current[1] EXCEPT !.items = Tail(@),
                                               !.yielded_count = @ + 1]>>
       ELSE /\ current' = <<>>
            /\ UNCHANGED <<output, remaining>>
    /\ UNCHANGED <<fd_pc, fd_limit, fd_method, fd_params, fd_config, fd_error,
                   fd_total_key, fd_initial,
                   total_items, items_per_page, total_pages,
                   next_page, in_progress, requested, page_params, fetched>>
    /\ UNCHANGED <<sharedVars, switchVars, cookieVars, callVars, histVars, logVars, utilVars>>

\* the page stream is used up: flat_map goes back to the buffer
PageDrained ==
    /\ fd_pc = "streaming"
    /\ TakeHasRemaining(fd_limit, remaining)
    /\ current # <<>>
    /\ current[1].items = <<>>
    /\ current' = <<>>
    /\ UNCHANGED <<fd_pc, fd_limit, fd_method, fd_params, fd_config, fd_error,
                   fd_total_key, fd_initial,
                   total_items, items_per_page, total_pages,
                   next_page, in_progress, remaining, output, requested, page_params, fetched>>
    /\ UNCHANGED <<sharedVars, switchVars, cookieVars, callVars, histVars, logVars, utilVars>>

\* faulty variant: the first failed page ends the stream
StreamEnds_AtError ==
    /\ fd_pc = "streaming"
    /\ \/ ~TakeHasRemaining(fd_limit, remaining)
       \/ current = <<>> /\ in_progress = {} /\ next_page = total_pages
       \/ output # <<>> /\ output[Len(output)].kind = "page_error"
    /\ fd_pc' = "ended"
    /\ UNCHANGED <<fd_limit, fd_method, fd_params, fd_config, fd_error,
                   fd_total_key, fd_initial,
                   total_items, items_per_page, total_pages,
                   next_page, in_progress, current, remaining, output, requested, page_params, fetched>>
    /\ UNCHANGED <<sharedVars, switchVars, cookieVars, callVars, histVars, logVars, utilVars>>

\* faulty variant: a stream without a limit is never told that it is over
StreamEnds_OnlyAtLimit ==
    /\ fd_pc = "streaming"
    /\ ~TakeHasRemaining(fd_limit, remaining)
    /\ fd_pc' = "ended"
    /\ UNCHANGED <<fd_limit, fd_method, fd_params, fd_config, fd_error,
                   fd_total_key, fd_initial,
                   total_items, items_per_page, total_pages,
                   next_page, in_progress, current, remaining, output, requested, page_params, fetched>>
    /\ UNCHANGED <<sharedVars, switchVars, cookieVars, callVars, histVars, logVars, utilVars>>

\* the stream ends: take has nothing left, or no page stream is open, no
\* future is held and the pages are used up
StreamEnds ==
    /\ fd_pc = "streaming"
    /\ \/ ~TakeHasRemaining(fd_limit, remaining)
       \/ current = <<>> /\ in_progress = {} /\ next_page = total_pages
    /\ fd_pc' = "ended"
    /\ UNCHANGED <<fd_limit, fd_method, fd_params, fd_config, fd_error,
                   fd_total_key, fd_initial,
                   total_items, items_per_page, total_pages,
                   next_page, in_progress, current, remaining, output, requested, page_params, fetched>>
    /\ UNCHANGED <<sharedVars, switchVars, cookieVars, callVars, histVars, logVars, utilVars>>

(***************************************************************************)
(* Construction (CodeMaoClient::new) and the specification of one call.     *)
(***************************************************************************)
\* the header maps `new` builds from settings.PROGRAM.HEADERS: a HashMap, so
\* one value per key at most
ConfigHeaderMaps ==
    {[EmptyHeaderMap EXCEPT !["user-agent"] = <<"agent">>],
     [EmptyHeaderMap EXCEPT !["user-agent"] = <<"agent">>,
                            !["authorization"] = <<"Bearer cfg">>,
                            !["cookie"] = <<"sid=0">>]}

vars == <<sharedVars, switchVars, cookieVars, callVars, histVars, fetchVars,
         logVars, utilVars>>

\* the client and its surroundings as they stand before any call, with the
\* `log` parameter of the settings as given
Constructed(log_setting) ==
    /\ headers \in ConfigHeaderMaps
    /\ lock = None
    /\ token = [c \in Clients |-> [i \in Identities |-> ""]]
    /\ sw_pc = [c \in Clients |-> "idle"]
    /\ sw_args = [c \in Clients |-> [token |-> "", identity |-> ""]]
    /\ sw_result = [c \in Clients |-> Pending]
    /\ sw_calls = [c \in Clients |-> 0]
    /\ uc_pc = "idle"
    /\ uc_arg = ""
    /\ uc_result = Pending
    /\ pc = [r \in Requests |-> "idle"]
    /\ call_headers = [r \in Requests |-> <<>>]
    /\ call_retries = [r \in Requests |-> <<>>]
    /\ snapshot = [r \in Requests |-> EmptyHeaderMap]
    /\ merged_headers = [r \in Requests |-> EmptyHeaderMap]
    /\ retries = [r \in Requests |-> 0]
    /\ attempt = [r \in Requests |-> 0]
    /\ last_error = [r \in Requests |-> NoError]
    /\ result = [r \in Requests |-> Pending]
    /\ sent = [r \in Requests |-> <<>>]
    /\ sent_headers = [r \in Requests |-> <<>>]
    /\ sleeps = [r \in Requests |-> <<>>]
    /\ stable = headers
    /\ last_switch = None
    /\ seen_switch = [r \in Requests |-> None]
    /\ seen_stable = [r \in Requests |-> EmptyHeaderMap]
    /\ fd_pc = "idle"
    /\ fd_limit = <<>>
    /\ fd_method = ""
    /\ fd_params = EmptyObject
    /\ fd_config = DefaultConfig("GET")
    /\ fd_error = NoError
    /\ fd_total_key = <<>>
    /\ fd_initial = [request |-> "", data |-> EmptyObject]
    /\ total_items = 0
    /\ items_per_page = 0
    /\ total_pages = 0
    /\ next_page = 0
    /\ in_progress = {}
    /\ current = <<>>
    /\ remaining = 0
    /\ output = <<>>
    /\ requested = <<>>
    /\ page_params = <<>>
    /\ fetched = <<>>
    /\ log_enabled = log_setting
    /\ log_sink = <<>>
    /\ wr_pc = "idle"
    /\ wr_config = DefaultRetryConfig
    /\ wr_i = 0
    /\ wr_last_error = <<>>
    /\ wr_result = <<>>
    /\ wr_calls = <<>>
    /\ wr_sleeps = <<>>
    /\ once_state = "incomplete"
    /\ once_value = <<>>
    /\ th_pc = [t \in Threads |-> "idle"]
    /\ th_calls = [t \in Threads |-> 0]
    /\ th_results = [t \in Threads |-> <<>>]
    /\ init_runs = <<>>
    /\ ch_pc = "idle"
    /\ ch_inner = <<>>
    /\ ch_size = 0
    /\ ch_input = <<>>
    /\ ch_chunks = <<>>

\* `log` is false unless the settings file turns it on (#[serde(default)])
Init == Constructed(FALSE)

\* the same with logging on or off
LogInit == \E log_setting \in BOOLEAN : Constructed(log_setting)

\* one call of send_request, from the call to its return
SendNext ==
    \/ \E h \in CallHeaderArgs, n \in CallRetryArgs : CallSendRequest("r1", h, n)
    \/ LockForSnapshot("r1")
    \/ SnapshotHeaders("r1")
    \/ Attempt("r1")
    \/ BackoffElapsed("r1")
    \/ RetriesUsedUp("r1")

SpecSend == Init /\ [][SendNext]_vars

(***************************************************************************)
(* The stream of fetch_data with pages of two elements, every order of      *)
(* completion and pages that succeed, hold an undecodable element or fail.  *)
(***************************************************************************)
LimitArgs == {<<>>} \cup {<<l>> : l \in 0..MaxLimit}
MethodArgs == {"offset", "page", "cursor"}
FetchParams == WithMember(EmptyObject, <<>>, "limit", JsonNumber(2))
FetchTotalKey == <<"total">>
FetchInitialResponses ==
    {[request |-> "error", data |-> EmptyObject]}
    \cup {[request |-> "ok",
           data |-> WithMember(EmptyObject, <<>>, "total", JsonNumber(n))] :
            n \in 0..MaxTotalItems}
FetchPageResponses ==
    {ArrayResponse(<<"ok", "ok">>), ArrayResponse(<<"bad", "ok">>),
     NotArrayResponse, RequestErrorResponse, UnsupportedMethod}

FetchNext ==
    \/ \E limit \in LimitArgs, pagination_method \in MethodArgs,
          initial \in FetchInitialResponses, overflow_checks \in BOOLEAN :
            FetchData(FetchParams, limit, "GET", FetchTotalKey, pagination_method, <<>>,
                      initial, overflow_checks)
    \/ SpawnPage
    \/ \E page \in in_progress, response \in FetchPageResponses :
            PageCompletes(page, response)
    \/ EmitElement
    \/ PageDrained
    \/ StreamEnds

SpecFetch == Init /\ [][FetchNext]_vars

(***************************************************************************)
(* The plan of fetch_data over what the caller passes and what the initial  *)
(* response holds: every total the width allows, page sizes named by the    *)
(* params, by the response or by neither, totals that are missing along the *)
(* path or are no count.  Pages answer in the order they were asked for.    *)
(***************************************************************************)
PlanAmounts == {JsonString} \cup {JsonNumber(n) : n \in -1..MaxPageSize}
PlanBaseParams == WithMember(EmptyObject, <<>>, "q", JsonString)
PlanParamsArgs ==
    {EmptyObject, Scalar(JsonNull), PlanBaseParams}
    \cup {WithMember(PlanBaseParams, <<>>, "limit", a) : a \in PlanAmounts}
    \cup {WithMember(WithMember(WithMember(WithMember(PlanBaseParams,
                <<>>, "limit", JsonNumber(2)), <<>>, "per", JsonNumber(3)),
                <<>>, "offset", JsonNumber(7)), <<>>, "current_page", JsonString)}
PlanConfigArgs ==
    {<<>>, <<[amount_key |-> "per", offset_key |-> "start",
              response_amount_key |-> "per", response_offset_key |-> "start"]>>}
PlanHttpMethods == {"GET", "POST"}
PlanTotalKeys == {<<"total">>, <<"data", ".", "total">>}

\* {"total": t, "data": {"total": t}}
TotalDocument(t) ==
    WithMember(WithMember(WithMember(EmptyObject, <<>>, "total", t),
                          <<>>, "data", JsonObject), <<"data">>, "total", t)
\* the same with a page size under "limit"
WithAmount(data, amount) ==
    IF amount = <<>> \/ data[<<>>].t # "object" THEN data
    ELSE WithMember(data, <<>>, "limit", amount[1])
PlanResponseAmounts == {<<>>, <<JsonNumber(-1)>>, <<JsonNumber(0)>>, <<JsonNumber(3)>>}
\* documents in which the path ends early
PlanBrokenDocuments ==
    {Scalar(JsonNumber(3)), EmptyObject,
     WithMember(EmptyObject, <<>>, "data", JsonNumber(3)),
     WithMember(EmptyObject, <<>>, "data", JsonObject)}
PlanTotals ==
    {JsonString, JsonNull, JsonNumber(-1)}
    \cup {JsonNumber(n) : n \in 0..(UsizeModulus - 1)}
PlanInitialResponses ==
    {[request |-> "bad_json", data |-> EmptyObject]}
    \cup {[request |-> "ok", data |-> WithAmount(d, a)] :
            d \in PlanBrokenDocuments \cup {TotalDocument(t) : t \in PlanTotals},
            a \in PlanResponseAmounts}
PlanSmallResponses ==
    {[request |-> "ok", data |-> WithAmount(TotalDocument(JsonNumber(n)), a)] :
            n \in 0..MaxSmallTotal, a \in {<<>>, <<JsonNumber(3)>>}}
PlanPageResponses == {ArrayResponse(<<"ok">>), UnsupportedMethod}

PlanNext ==
    \/ /\ fd_pc = "idle"
       /\ \E params \in PlanParamsArgs, method \in PlanHttpMethods,
          total_key \in PlanTotalKeys, pagination_method \in MethodArgs,
          config \in PlanConfigArgs, initial \in PlanInitialResponses,
          overflow_checks \in BOOLEAN :
               FetchData(params, <<1>>, method, total_key, pagination_method, config,
                      initial, overflow_checks)
    \/ /\ fd_pc = "idle"
       /\ \E params \in PlanParamsArgs, method \in PlanHttpMethods,
          total_key \in PlanTotalKeys, pagination_method \in MethodArgs,
          config \in PlanConfigArgs, initial \in PlanSmallResponses :
               FetchData(params, <<>>, method, total_key, pagination_method, config,
                      initial, FALSE)
    \/ SpawnPage
    \/ \E page \in in_progress, response \in PlanPageResponses :
            /\ \A q \in in_progress : page <= q
            /\ PageCompletes(page, response)
    \/ EmitElement
    \/ PageDrained
    \/ StreamEnds

SpecPlan == Init /\ [][PlanNext]_vars

(***************************************************************************)
(* One or two pages of the offset strategy with every kind of page          *)
(* response: arrays of up to three elements with undecodable elements in    *)
(* any position, a value that is no array, a missing data_key, a body that  *)
(* is no JSON, a failed request.                                            *)
(***************************************************************************)
PageItems == {"ok", "bad"}
PageArrays ==
    {<<>>} \cup {<<a>> : a \in PageItems}
    \cup {<<a, b, c>> : a \in PageItems, b \in PageItems, c \in PageItems}
PageResponses ==
    {ArrayResponse(items) : items \in PageArrays}
    \cup {NotArrayResponse, MissingKeyResponse, BadJsonResponse, RequestErrorResponse}
PageLimitArgs == {<<>>, <<2>>}
PageInitialResponses ==
    {[request |-> "ok", data |-> WithMember(EmptyObject, <<>>, "total", JsonNumber(n))] :
        n \in {2, 4}}

PageNext ==
    \/ /\ fd_pc = "idle"
       /\ \E limit \in PageLimitArgs, initial \in PageInitialResponses :
            FetchData(FetchParams, limit, "GET", FetchTotalKey, "offset", <<>>,
                      initial, FALSE)
    \/ SpawnPage
    \/ \E page \in in_progress, response \in PageResponses :
            PageCompletes(page, response)
    \/ EmitElement
    \/ PageDrained
    \/ StreamEnds

SpecPage == Init /\ [][PageNext]_vars

\* the same with a consumer that keeps polling and page fetches that end:
\* send_request returns after `retries` attempts at most
PageFairness ==
    /\ WF_vars(SpawnPage)
    /\ WF_vars(\E page \in in_progress, response \in PageResponses :
                    PageCompletes(page, response))
    /\ WF_vars(EmitElement)
    /\ WF_vars(PageDrained)
    /\ WF_vars(StreamEnds)

SpecPageLive == SpecPage /\ PageFairness

(***************************************************************************)
(* Properties of send_request.                                              *)
(***************************************************************************)
\* the ceiling of a call as the caller states it: the override, else 3
Ceiling(r) == IF call_retries[r] = <<>> THEN 3 ELSE call_retries[r][1]

IsResponse2xx(o) == o.kind = "Response" /\ o.status >= 200 /\ o.status < 300
IsResponseNon2xx(o) == o.kind = "Response" /\ ~(o.status >= 200 /\ o.status < 300)
IsTransport(o) == o.kind = "Transport"
TransportCount(s, n) == Cardinality({j \in 1..n : IsTransport(s[j])})

\* C1: whatever the attempts meet, one call of send_request sends the request
\* at most `ceiling` times, the ceiling being the per-call override when one
\* is given and 3 otherwise.
C1_AttemptsWithinCeiling ==
    \A r \in Requests : Len(sent[r]) <= Ceiling(r)

\* the ceiling is reached with an override below the default, after a
\* transport failure and a response without success status
C1_Witness ==
    /\ pc["r1"] = "returned"
    /\ call_retries["r1"] = <<2>>
    /\ Len(sent["r1"]) = 2
    /\ IsTransport(sent["r1"][1])
    /\ IsResponseNon2xx(sent["r1"][2])

\* C2: the first attempt that receives a 2xx response ends the call: it is
\* the last attempt sent, the call has returned that response, and no backoff
\* sleep follows it (the sleeps are those of the transport failures before it).
C2_SuccessEndsCall ==
    \A r \in Requests : \A i \in 1..Len(sent[r]) :
        IsResponse2xx(sent[r][i]) =>
            /\ i = Len(sent[r])
            /\ pc[r] = "returned"
            /\ result[r].state = "Ok"
            /\ result[r].status = sent[r][i].status
            /\ Len(sleeps[r]) = TransportCount(sent[r], i - 1)

\* a 2xx response on the second attempt of a call with attempts to spare
C2_Witness ==
    /\ Len(sent["r1"]) = 2
    /\ IsTransport(sent["r1"][1])
    /\ IsResponse2xx(sent["r1"][2])
    /\ retries["r1"] = 3
    /\ pc["r1"] = "returned"

\* the failure an attempt leaves behind, as the specification has it
FailureOf(o) ==
    IF IsTransport(o) THEN [kind |-> "Http", status |-> 0, text |-> o.text]
    ELSE [kind |-> "RequestFailed", status |-> o.status, text |-> o.text]

\* C3 (as stated): when every attempt of a call fails, exactly `ceiling`
\* attempts are made and the call fails with the failure of the last attempt.
C3_AllFailedUsesCeiling ==
    \A r \in Requests :
        (pc[r] = "returned" /\ \A i \in 1..Len(sent[r]) : ~IsResponse2xx(sent[r][i])) =>
            /\ Len(sent[r]) = Ceiling(r)
            /\ result[r].state = "Err"
            /\ Len(sent[r]) > 0 => result[r].error = FailureOf(sent[r][Len(sent[r])])

\* C4: a transport failure on attempt a (0-based) is followed by a backoff
\* delay of 300 ms * 2^a before the call goes on; under sustained transport
\* failure with ceiling 3 the delays are 300, 600 and 1200 ms in that order.
C4_BackoffDelays ==
    \A r \in Requests :
        /\ Len(sleeps[r]) = TransportCount(sent[r], Len(sent[r]))
        /\ \A i \in 1..Len(sent[r]) :
                IsTransport(sent[r][i]) =>
                    sleeps[r][TransportCount(sent[r], i)] = 300 * (2 ^ (i - 1))
        /\ pc[r] = "backoff" =>
                /\ IsTransport(sent[r][Len(sent[r])])
                /\ attempt[r] = Len(sent[r]) - 1
        /\ (Len(sent[r]) > 0 /\ IsTransport(sent[r][Len(sent[r])]) /\ pc[r] = "loop") =>
                attempt[r] = Len(sent[r])
        /\ (pc[r] = "returned" /\ Ceiling(r) = 3 /\ Len(sent[r]) = 3
                /\ \A i \in 1..3 : IsTransport(sent[r][i])) =>
                sleeps[r] = <<300, 600, 1200>>

\* three transport failures in a row under the default ceiling
C4_Witness ==
    /\ pc["r1"] = "returned"
    /\ call_retries["r1"] = <<>>
    /\ Len(sent["r1"]) = 3
    /\ \A i \in 1..3 : IsTransport(sent["r1"][i])
    /\ sleeps["r1"] = <<300, 600, 1200>>

\* C5 (as stated): an attempt that receives a response without success status
\* records that status and body as the latest failure, counts as one attempt,
\* and the loop goes on to the next attempt (or ends because the ceiling is
\* reached) without a sleep for that attempt.
C5_StatusFailureContinues ==
    \A r \in Requests :
        (Len(sent[r]) > 0 /\ IsResponseNon2xx(sent[r][Len(sent[r])])) =>
            /\ last_error[r] = FailureOf(sent[r][Len(sent[r])])
            /\ attempt[r] = Len(sent[r])
            /\ Len(sleeps[r]) = TransportCount(sent[r], Len(sent[r]))
            /\ pc[r] = "loop" \/ (pc[r] = "returned" /\ Len(sent[r]) = Ceiling(r))

(***************************************************************************)
(* The shared header set: clones switching identity, a cookie update and    *)
(* requests taking their header snapshot, in every interleaving.            *)
(***************************************************************************)
\* what the callers pass in this specification: each clone switches once
AuthIdentityArgs == {"average", "edu", "admin"}
AuthCallHeaderArgs ==
    {<<>>, <<[EmptyHeaderMap EXCEPT !["authorization"] = <<"Bearer call">>]>>}

AuthNext ==
    \/ \E c \in Clients, tok \in TokenArgs, identity \in AuthIdentityArgs :
            sw_calls[c] = 0 /\ CallSwitchAccount(c, tok, identity)
    \/ \E c \in Clients : SwitchMatch(c)
    \/ \E c \in Clients : SwitchLock(c)
    \/ \E c \in Clients : SwitchParseError(c)
    \/ \E c \in Clients : SwitchInsertBegin(c)
    \/ \E c \in Clients : SwitchInsertEnd(c)
    \/ \E cookies \in CookieArgs : CallUpdateCookies(cookies)
    \/ CookieLock
    \/ CookieRemove
    \/ CookieParseError
    \/ CookieInsertBegin
    \/ CookieInsertEnd
    \/ \E r \in Requests, h \in AuthCallHeaderArgs : CallSendRequest(r, h, <<>>)
    \/ \E r \in Requests : LockForSnapshot(r)
    \/ \E r \in Requests : SnapshotHeaders(r)

SpecAuth == Init /\ [][AuthNext]_vars

(***************************************************************************)
(* One clone switching identity again and again, with every identity name   *)
(* and token, while requests take their header snapshots.                   *)
(***************************************************************************)
SwitchNext ==
    \/ \E tok \in TokenArgs, identity \in IdentityArgs :
            CallSwitchAccount("c1", tok, identity)
    \/ SwitchMatch("c1")
    \/ SwitchLock("c1")
    \/ SwitchParseError("c1")
    \/ SwitchInsertBegin("c1")
    \/ SwitchInsertEnd("c1")
    \/ \E r \in Requests, h \in AuthCallHeaderArgs : CallSendRequest(r, h, <<>>)
    \/ \E r \in Requests : LockForSnapshot(r)
    \/ \E r \in Requests : SnapshotHeaders(r)

SpecSwitch == Init /\ [][SwitchNext]_vars

(***************************************************************************)
(* Properties of the shared header set.                                     *)
(***************************************************************************)
\* a request that has taken its header snapshot
HasSnapshot(r) == pc[r] \in {"loop", "backoff", "returned"}

\* C6: the identity switch is indivisible for concurrent requests on clones
\* sharing the header set: in every interleaving each request's snapshot is
\* the complete header set as it was before or after a switch (the set as of
\* the last moment the mutex was free), never a set with a half-written
\* value; and whoever reads or writes the set holds its mutex.
C6_SwitchIndivisible ==
    /\ \A r \in Requests :
            HasSnapshot(r) =>
                /\ snapshot[r] = seen_stable[r]
                /\ \A n \in HeaderNames :
                        \A i \in 1..Len(snapshot[r][n]) : snapshot[r][n][i] # "<incomplete>"
    /\ \A r \in Requests : pc[r] = "clone" => lock = r
    /\ \A c \in Clients : sw_pc[c] \in {"parse", "insert"} => lock = c
    /\ uc_pc \in {"remove", "parse", "insert"} => lock = "uc"
    /\ lock = None => stable = headers

\* a request took its snapshot while a switch was between its token write
\* and its header write, and another after that switch: it saw the set
\* before, the other the set after
C6_Witness ==
    /\ HasSnapshot("r1") /\ HasSnapshot("r2")
    /\ sw_pc["c1"] = "returned" /\ sw_result["c1"].state = "Ok"
    /\ sw_pc["c2"] = "insert"
    /\ snapshot["r1"]["authorization"] # snapshot["r2"]["authorization"]
    /\ snapshot["r2"]["authorization"] = <<"Bearer " \o sw_args["c1"].token>>

\* C7: after any sequence of switch_account calls the header set holds at
\* most one Authorization value; after a successful switch_account(token,
\* identity) the token is in that identity's slot, and the Authorization
\* value is "Bearer <token>" of the most recent successful switch, which
\* every request started afterwards carries (in its snapshot of the shared
\* set, and in what it sends unless the call overrides Authorization itself).
C7_OneAuthorizationOfLastSwitch ==
    /\ Len(headers["authorization"]) <= 1
    /\ \A c \in Clients :
            (sw_pc[c] = "returned" /\ sw_result[c].state = "Ok") =>
                token[c][sw_args[c].identity] = sw_args[c].token
    /\ (lock = None /\ last_switch # None) =>
            headers["authorization"] = <<"Bearer " \o last_switch>>
    /\ \A r \in Requests :
            (HasSnapshot(r) /\ seen_switch[r] # None) =>
                /\ snapshot[r]["authorization"] = <<"Bearer " \o seen_switch[r]>>
                /\ (call_headers[r] = <<>> \/ call_headers[r][1]["authorization"] = <<>>) =>
                        merged_headers[r]["authorization"] = <<"Bearer " \o seen_switch[r]>>

\* the clone switched to tokA and then to tokB; a request started after the
\* second switch carries "Bearer tokB", one started between them "Bearer tokA"
C7_Witness ==
    /\ sw_calls["c1"] = 2
    /\ sw_pc["c1"] = "returned" /\ sw_result["c1"].state = "Ok"
    /\ sw_args["c1"] = [token |-> "tokB", identity |-> "edu"]
    /\ token["c1"]["edu"] = "tokB"
    /\ headers["authorization"] = <<"Bearer tokB">>
    /\ HasSnapshot("r1") /\ merged_headers["r1"]["authorization"] = <<"Bearer tokB">>
    /\ HasSnapshot("r2") /\ merged_headers["r2"]["authorization"] = <<"Bearer tokA">>

\* C8: switch_account with an identity name outside average, edu, judgement,
\* blank returns an error and changes neither the header set nor any token
\* slot (and a name inside the set is not rejected as an invalid identity).
C8_UnknownIdentityRejected ==
    [][\A c \in Clients :
        (sw_pc[c] = "match" /\ sw_pc'[c] # "match") =>
            IF sw_args[c].identity \in {"average", "edu", "judgement", "blank"}
            THEN sw_pc'[c] = "lock" /\ sw_result'[c].state = "pending"
            ELSE /\ sw_pc'[c] = "returned"
                 /\ sw_result'[c].state = "Err"
                 /\ sw_result'[c].error.kind = "Unknown"
                 /\ token' = token
                 /\ headers' = headers]_vars

\* after a successful switch, a call with the name "admin" has returned its
\* error; slots and headers are those of the successful switch
C8_Witness ==
    /\ sw_calls["c1"] = 2
    /\ sw_pc["c1"] = "returned"
    /\ sw_args["c1"].identity = "admin"
    /\ sw_result["c1"].state = "Err"
    /\ headers["authorization"] = <<"Bearer tokA">>
    /\ token["c1"]["average"] = "tokA"

(***************************************************************************)
(* Properties of the stream of fetch_data.                                  *)
(***************************************************************************)
Pages == 0..(total_pages - 1)
\* the pages whose request has gone out and whose future has not ended
InFlight ==
    {q \in Pages : (\E i \in 1..Len(requested) : requested[i] = q) /\ fetched[q] = <<>>}

ItemCount(s) == Cardinality({i \in 1..Len(s) : s[i].kind = "item"})
ErrorCount(s) == Cardinality({i \in 1..Len(s) : s[i].kind # "item"})

\* the decodable array elements in the responses received so far
DecodableFetched ==
    Cardinality({<<q, i>> \in Pages \X (1..3) :
        /\ fetched[q] # <<>>
        /\ fetched[q][1].kind = "array"
        /\ i <= Len(fetched[q][1].items)
        /\ fetched[q][1].items[i] = "ok"})

\* the elements (items and errors) the responses received so far stand for
ElementsFetched ==
    Cardinality({<<q, i>> \in Pages \X (0..3) :
        /\ fetched[q] # <<>>
        /\ \E j \in 1..Len(PageElements(q, fetched[q][1])) :
                PageElements(q, fetched[q][1])[j].index = i})

\* C9: while the stream of fetch_data is consumed, at most 3 page fetches
\* are in flight at any moment, for every number of pages and every order
\* of completion.
C9_AtMostThreeInFlight ==
    /\ Cardinality(InFlight) <= 3
    /\ Cardinality(in_progress) <= 3

\* four pages: one has completed and been delivered, the fourth has been
\* requested, and three are in flight again
C9_Witness ==
    /\ total_pages = 4
    /\ Cardinality(InFlight) = 3
    /\ next_page = 4
    /\ Len(output) = 2
    /\ fd_limit = <<>>

\* C10 (as stated): with a limit L and at least L decodable items available
\* across the pages, the output yields exactly L items in total and ends.
C10_LimitYieldsLItems ==
    (fd_pc = "ended" /\ fd_limit # <<>> /\ DecodableFetched >= fd_limit[1]) =>
        ItemCount(output) = fd_limit[1]

\* C10 (amended): with a limit L the output never holds more than L elements,
\* items and error elements counted together; when at least L elements are
\* available across the pages it yields exactly L elements and then ends,
\* whatever pages are still in flight and in whatever order pages complete
\* (it ends with fewer only when every page has completed and all their
\* elements, fewer than L, were delivered); with at least L decodable items
\* available and no error element delivered, the output is exactly L items.
C10_LimitYieldsLElements ==
    fd_limit # <<>> =>
        /\ Len(output) <= fd_limit[1]
        /\ (fd_pc = "ended" /\ DecodableFetched >= fd_limit[1] /\ ErrorCount(output) = 0) =>
                ItemCount(output) = fd_limit[1]
        /\ (fd_pc = "streaming" /\ Len(output) = fd_limit[1]) =>
                /\ ENABLED StreamEnds
                /\ ~ENABLED EmitElement
        /\ (fd_pc = "ended" /\ Len(output) # fd_limit[1]) =>
                /\ next_page = total_pages
                /\ in_progress = {}
                /\ current = <<>>
                /\ \A q \in Pages : fetched[q] # <<>>
                /\ Len(output) = ElementsFetched
                /\ ElementsFetched < fd_limit[1]

\* limit 3 over four pages: the stream has ended after three elements, one of
\* them an error element, while page fetches are still in flight
C10_Witness ==
    /\ fd_pc = "ended"
    /\ fd_limit = <<3>>
    /\ total_pages = 4
    /\ Len(output) = 3
    /\ ItemCount(output) = 2
    /\ InFlight # {}

\* every response received so far is a full page of decodable items
FullPagesOnly ==
    \A q \in Pages : fetched[q] # <<>> =>
        /\ fetched[q][1].kind = "array"
        /\ Len(fetched[q][1].items) = items_per_page
        /\ \A i \in 1..Len(fetched[q][1].items) : fetched[q][1].items[i] = "ok"

\* the pages that supply `limit` items when every page is full
NeededPages(limit, per_page) == (limit + per_page - 1) \div per_page

\* C11: with a global limit L, no page fetch is scheduled beyond the pages
\* needed to produce the L items: when every page answers with a full page
\* of items, the pages requested are at most ceil(L / page size) (2 pages
\* for limit 7 and page size 5, however many pages the plan holds).
C11_NoFetchBeyondNeeded ==
    (fd_pc \in {"streaming", "ended"} /\ fd_limit # <<>> /\ FullPagesOnly) =>
        Len(requested) <= NeededPages(fd_limit[1], items_per_page)

\* C12: once the limit-th element has been delivered, no step starts a page
\* fetch or delivers an element; the pages in flight at that moment stay
\* where they are and their elements never reach the consumer.
C12_NothingAfterLimit ==
    [][(fd_pc \in {"streaming", "ended"} /\ fd_limit # <<>> /\ Len(output) = fd_limit[1]) =>
            /\ output' = output
            /\ requested' = requested
            /\ next_page' = next_page
            /\ in_progress' = in_progress
            /\ current' = current]_vars

\* the stream has ended on its first element with an element of the open
\* page undelivered, page fetches in flight and a page never asked for
C12_Witness ==
    /\ fd_pc = "ended"
    /\ fd_limit = <<1>>
    /\ Len(output) = 1
    /\ current # <<>>
    /\ current[1].items # <<>>
    /\ in_progress # {}
    /\ next_page < total_pages

(***************************************************************************)
(* Properties of the plan of fetch_data.                                    *)
(***************************************************************************)
\* fetch_data got as far as the number of pages: the total was a count and
\* the page size at least 1
Planned == fd_pc \in {"streaming", "ended", "panicked"}

\* the value the request of page `page` carries under the offset key
OffsetOfPage(pagination_method, page) ==
    ValueGet(PageParams(fd_params, fd_config, pagination_method, page, items_per_page),
             fd_config.offset_key)

\* C13: for every total_items >= 0 and page size >= 1 the plan holds
\* ceil(total_items / page size) pages (none for no items); the last page of
\* the offset strategy starts inside the collection and covers what is left,
\* at most one page; 23 items in pages of 5 are 5 pages, the last from offset
\* 20 with 3 items.
C13_TotalPagesIsCeiling ==
    Planned =>
        /\ fd_pc # "panicked"
        /\ total_pages * items_per_page >= total_items
        /\ (total_pages - 1) * items_per_page < total_items
        /\ total_items = 0 => total_pages = 0
        /\ total_pages > 0 =>
                \E offset \in 0..(total_items - 1) :
                    /\ OffsetOfPage("offset", total_pages - 1) = <<JsonNumber(offset)>>
                    /\ offset = (total_pages - 1) * items_per_page
                    /\ total_items - offset \in 1..items_per_page
        /\ (total_items = 23 /\ items_per_page = 5) =>
                /\ total_pages = 5
                /\ OffsetOfPage("offset", 4) = <<JsonNumber(20)>>

\* the initial request was answered with a JSON document and the total was
\* read from it: fetch_data has got to the page size
Resolving ==
    /\ fd_pc # "idle"
    /\ fd_initial.request = "ok"
    /\ fd_error # UnknownError("Failed to get total items")

\* what the caller's params and the initial response hold under their
\* page-size keys
ParamsAmount == ValueGet(fd_params, fd_config.amount_key)
ResponseAmount == ValueGet(fd_initial.data, fd_config.response_amount_key)

\* C14: the page size is the value under the page-size key of the caller's
\* params if that key is present, otherwise the value of the page-size
\* field of the initial response if it is present, otherwise 5.
C14_PageSizePriority ==
    Resolving =>
        IF ParamsAmount # <<>> THEN JsonNumber(items_per_page) = ParamsAmount[1]
        ELSE IF ResponseAmount # <<>> THEN JsonNumber(items_per_page) = ResponseAmount[1]
        ELSE items_per_page = DEFAULT_PAGE_SIZE

\* the page size the params or, without one there, the initial response supply
SuppliedAmount == IF ParamsAmount # <<>> THEN ParamsAmount ELSE ResponseAmount

\* C15: a page size of zero or less supplied by the params or by the initial
\* response makes fetch_data fail with the configuration error, without a
\* page request and without another page size taking its place.
C15_NonPositivePageSizeFails ==
    (/\ Resolving
     /\ SuppliedAmount # <<>>
     /\ SuppliedAmount[1].t = "number"
     /\ SuppliedAmount[1].v <= 0) =>
        /\ fd_pc = "failed"
        /\ fd_error = UnknownError("Invalid items per page")
        /\ items_per_page = SuppliedAmount[1].v
        /\ requested = <<>>

\* the keys a dotted path names, for paths without empty keys
KeysOf(path) == SelectSeq(path, LAMBDA x : x # ".")

\* the document holds a count at the end of the path: every key along the
\* path is a member of an object and the last one is a number >= 0
HoldsCountAt(data, keys) ==
    /\ keys \in DOMAIN data
    /\ \A i \in 0..(Len(keys) - 1) : data[SubSeq(keys, 1, i)].t = "object"
    /\ data[keys].t = "number"
    /\ data[keys].v >= 0

\* C16: if total_key is missing from the initial response at any segment of
\* the path, or the value there is not a non-negative number, fetch_data
\* fails with the error of the total and no page request is ever sent.
C16_MissingTotalFails ==
    (/\ fd_pc # "idle"
     /\ fd_initial.request = "ok"
     /\ ~HoldsCountAt(fd_initial.data, KeysOf(fd_total_key))) =>
        /\ fd_pc = "failed"
        /\ fd_error = UnknownError("Failed to get total items")
        /\ requested = <<>>
        /\ ~ENABLED SpawnPage

\* {"data": {}} read at "data.total": the path ends at its second key
C16_Witness ==
    /\ fd_pc = "failed"
    /\ fd_error = UnknownError("Failed to get total items")
    /\ fd_total_key = <<"data", ".", "total">>
    /\ fd_initial.request = "ok"
    /\ <<"data">> \in DOMAIN fd_initial.data
    /\ fd_initial.data[<<"data">>].t = "object"
    /\ <<"data", "total">> \notin DOMAIN fd_initial.data

\* C17: the params sent for page p are the caller's params with the offset
\* key set to p * page size (strategy "offset") or p + 1 (strategy "page"):
\* every other key keeps its value and no other key appears; the pages are
\* asked for in index order, all of them when the stream is read to its end.
C17_PageParamsOverwriteOffsetOnly ==
    /\ Len(page_params) = Len(requested)
    /\ \A i \in 1..Len(requested) :
        LET p == requested[i]
            sent_params == page_params[i]
            offset_path == <<fd_config.offset_key>>
        IN  /\ p = i - 1
            /\ DOMAIN sent_params = DOMAIN fd_params \cup {offset_path}
            /\ \A q \in DOMAIN fd_params \ {<<>>, offset_path} :
                    sent_params[q] = fd_params[q]
            /\ sent_params[<<>>] = JsonObject
            /\ fd_method = "offset" => sent_params[offset_path] = JsonNumber(p * items_per_page)
            /\ fd_method = "page" => sent_params[offset_path] = JsonNumber(p + 1)
    /\ (fd_pc = "ended" /\ fd_limit = <<>> /\ fd_method \in SupportedMethods) =>
            Len(requested) = total_pages

\* two pages of the offset strategy read to the end, the caller's params
\* holding an offset of their own and four other keys
C17_Witness ==
    /\ fd_pc = "ended"
    /\ fd_limit = <<>>
    /\ fd_method = "offset"
    /\ total_pages = 2
    /\ Len(requested) = total_pages
    /\ fd_config.offset_key = "offset"
    /\ <<"offset">> \in DOMAIN fd_params
    /\ <<"q">> \in DOMAIN fd_params
    /\ page_params[2][<<"offset">>] = JsonNumber(items_per_page)
    /\ items_per_page > 1

\* the elements of the output that come from page q, in output order
OfPage(s, q) == SelectSeq(s, LAMBDA e : e.page = q)

\* take(limit) has not cut the output short
NotCut == fd_limit = <<>> \/ Len(output) < fd_limit[1]

\* C18: with a strategy other than "offset" and "page" the stream yields one
\* error element "unsupported pagination method" for every page index
\* 0..total_pages-1 (as far as a limit lets it run), no item, and no page
\* request is sent.
C18_UnknownStrategyFailsEveryPage ==
    (fd_pc \in {"streaming", "ended"} /\ fd_method \notin SupportedMethods) =>
        /\ requested = <<>>
        /\ ItemCount(output) = 0
        /\ \A i \in 1..Len(output) :
                /\ output[i].kind = "page_error"
                /\ output[i].error = UnknownError("Unsupported pagination method")
        /\ \A q \in Pages : Len(OfPage(output, q)) <= 1
        /\ (fd_pc = "ended" /\ NotCut) =>
                \A q \in Pages : Len(OfPage(output, q)) = 1

\* strategy "cursor" over four pages read to the end: four error elements
C18_Witness ==
    /\ fd_pc = "ended"
    /\ fd_method = "cursor"
    /\ fd_limit = <<>>
    /\ total_pages = 4
    /\ Len(output) = 4
    /\ requested = <<>>

(***************************************************************************)
(* Properties of the pages of fetch_data.                                   *)
(***************************************************************************)
\* the response of page q has been turned into elements and flat_map is not
\* holding any of them back
Flattened(q) ==
    /\ fetched[q] # <<>>
    /\ ~(current # <<>> /\ current[1].page = q /\ current[1].items # <<>>)

\* C19: a page response without data_key gives exactly one error element
\* for its page in the output, the error of the missing key, never a page
\* without an element.
C19_MissingKeyIsOneError ==
    \A q \in Pages :
        (fetched[q] # <<>> /\ fetched[q][1] = MissingKeyResponse) =>
            /\ \A i \in 1..Len(OfPage(output, q)) :
                    /\ OfPage(output, q)[i].kind = "page_error"
                    /\ OfPage(output, q)[i].error = UnknownError("Data key not found")
            /\ Len(OfPage(output, q)) <= 1
            /\ Flattened(q) => Len(OfPage(output, q)) = 1

\* two pages read to the end: the first lacked data_key and is one error
\* element, the second gave three items
C19_Witness ==
    /\ fd_pc = "ended"
    /\ total_pages = 2
    /\ fetched[0] = <<MissingKeyResponse>>
    /\ fetched[1] = <<ArrayResponse(<<"ok", "ok", "ok">>)>>
    /\ Len(OfPage(output, 0)) = 1
    /\ Len(OfPage(output, 1)) = 3

\* C20: the elements of a page come out in the order of its array, an item
\* for every element that decodes and an error element in the place of
\* every element that does not; an element that fails to decode does not
\* end its page: all elements of the array are delivered unless the limit
\* ends the stream first.
C20_DecodeErrorKeepsPage ==
    \A q \in Pages :
        (fetched[q] # <<>> /\ fetched[q][1].kind = "array") =>
            LET items == fetched[q][1].items
                mine == OfPage(output, q)
            IN  /\ Len(mine) <= Len(items)
                /\ \A i \in 1..Len(mine) :
                        /\ mine[i].index = i
                        /\ items[i] = "ok" => mine[i].kind = "item"
                        /\ items[i] = "bad" =>
                                mine[i].kind = "decode_error" /\ mine[i].error = JsonError
                /\ (fd_pc = "ended" /\ NotCut) => Len(mine) = Len(items)
                /\ (Flattened(q) /\ TakeHasRemaining(fd_limit, remaining)) =>
                        Len(mine) = Len(items)

\* a page whose second element does not decode: item, error, item
C20_Witness ==
    /\ fd_pc = "ended"
    /\ fetched[0] = <<ArrayResponse(<<"ok", "bad", "ok">>)>>
    /\ Len(OfPage(output, 0)) = 3
    /\ OfPage(output, 0)[1].kind = "item"
    /\ OfPage(output, 0)[2].kind = "decode_error"
    /\ OfPage(output, 0)[3].kind = "item"

\* the pages whose future ended with an error instead of a page stream
FailedPages ==
    {q \in Pages : fetched[q] # <<>> /\
        fetched[q][1].kind \in {"request_error", "bad_json", "missing_key", "unsupported"}}

\* C21: without a limit a page that fails (send_request failing, a body
\* that is no JSON, a missing data_key) is exactly one error element of the
\* output; the stream goes on: it ends only when every page has been
\* fetched, with every element of every other page delivered and one error
\* element for every failed page.
C21_PageFailureIsIsolated ==
    (fd_pc \in {"streaming", "ended"} /\ fd_limit = <<>>) =>
        /\ \A q \in FailedPages :
                /\ Len(OfPage(output, q)) <= 1
                /\ Flattened(q) =>
                        OfPage(output, q) =
                            <<[page |-> q, index |-> 0, kind |-> "page_error",
                               error |-> PageError(fetched[q][1])]>>
        /\ fd_pc = "ended" =>
                /\ \A q \in Pages : fetched[q] # <<>>
                /\ \A q \in Pages \ FailedPages :
                        fetched[q][1].kind = "array" =>
                            Len(OfPage(output, q)) = Len(fetched[q][1].items)
                /\ Cardinality({i \in 1..Len(output) : output[i].kind = "page_error"})
                        = Cardinality(FailedPages)

\* two pages without a limit: the request of one failed, the other gave
\* three items after it
C21_Witness ==
    /\ fd_pc = "ended"
    /\ fd_limit = <<>>
    /\ total_pages = 2
    /\ fetched[0] = <<RequestErrorResponse>>
    /\ fetched[1] = <<ArrayResponse(<<"ok", "ok", "ok">>)>>
    /\ Len(output) = 4
    /\ output[1].kind = "page_error"
    /\ ItemCount(output) = 3

\* C22: for every page and every order in which the pages complete, the
\* elements of one page appear in the output in the order of the page's
\* array.
C22_PageOrderPreserved ==
    \A i \in 1..Len(output) : \A j \in 1..Len(output) :
        (i < j /\ output[i].page = output[j].page) => output[i].index < output[j].index

\* the page asked for last has completed first: its two elements come
\* before those of page 0, each pair in array order
C22_Witness ==
    /\ Len(output) >= 4
    /\ output[1].page = 2 /\ output[1].index = 1
    /\ output[2].page = 2 /\ output[2].index = 2
    /\ output[3].page = 0 /\ output[3].index = 1
    /\ output[4].page = 0 /\ output[4].index = 2

\* the part of the collection page q covers
PageShare(q) ==
    IF total_items - q * items_per_page < items_per_page
    THEN total_items - q * items_per_page ELSE items_per_page

\* no page answers with more elements than its part of the collection
ServerConsistent ==
    \A q \in Pages :
        (fetched[q] # <<>> /\ fetched[q][1].kind = "array") =>
            Len(fetched[q][1].items) <= PageShare(q)

Overrides(r) == IF call_headers[r] = <<>> THEN EmptyHeaderMap ELSE call_headers[r][1]

\* C24: the headers send_request sends are the shared header set overlaid
\* with the per-call overrides: a name the call overrides is sent with the
\* per-call value, every other name is sent as the shared set holds it, and
\* the shared set itself is left as it was.
C24_SentHeadersAreSharedUnderOverrides ==
    \A r \in Requests :
        /\ headers = stable
        /\ HasSnapshot(r) =>
            /\ snapshot[r] = headers
            /\ \A i \in 1..Len(sent_headers[r]) : \A n \in HeaderNames :
                    /\ Overrides(r)[n] # <<>> => sent_headers[r][i].sent[n] = Overrides(r)[n]
                    /\ Overrides(r)[n] = <<>> => sent_headers[r][i].sent[n] = headers[n]

\* a call overriding User-Agent, which the shared set also holds, has been
\* sent: with the per-call User-Agent and the shared Authorization and Cookie
C24_Witness ==
    /\ pc["r1"] = "returned"
    /\ Len(sent_headers["r1"]) >= 1
    /\ headers["user-agent"] = <<"agent">>
    /\ headers["authorization"] = <<"Bearer cfg">>
    /\ Overrides("r1")["user-agent"] = <<"call-agent">>
    /\ sent_headers["r1"][1].sent["user-agent"] = <<"call-agent">>
    /\ sent_headers["r1"][1].sent["authorization"] = <<"Bearer cfg">>
    /\ sent_headers["r1"][1].sent["cookie"] = <<"sid=0">>

(***************************************************************************)
(* One request with its attempts, failures and backoff sleeps, while a      *)
(* clone switches identity once and the cookies are updated once.           *)
(***************************************************************************)
RetryAuthRetryArgs == {<<>>, <<2>>}
RetryAuthTokenArgs == {"tokA", "tok\nC"}
RetryAuthCookieArgs == CookieArgs

RetryAuthNext ==
    \/ \E h \in AuthCallHeaderArgs, n \in RetryAuthRetryArgs : CallSendRequest("r1", h, n)
    \/ LockForSnapshot("r1")
    \/ SnapshotHeaders("r1")
    \/ Attempt("r1")
    \/ BackoffElapsed("r1")
    \/ RetriesUsedUp("r1")
    \/ \E tok \in RetryAuthTokenArgs :
            sw_calls["c1"] = 0 /\ CallSwitchAccount("c1", tok, "average")
    \/ SwitchMatch("c1")
    \/ SwitchLock("c1")
    \/ SwitchParseError("c1")
    \/ SwitchInsertBegin("c1")
    \/ SwitchInsertEnd("c1")
    \/ \E cookies \in RetryAuthCookieArgs : CallUpdateCookies(cookies)
    \/ CookieLock
    \/ CookieRemove
    \/ CookieParseError
    \/ CookieInsertBegin
    \/ CookieInsertEnd

SpecRetryAuth == Init /\ [][RetryAuthNext]_vars

\* C30: send_request reads the shared header set once, before its first
\* attempt: every attempt of a call sends the headers of that one snapshot
\* under the per-call overrides, whatever switch_account and update_cookies
\* have made of the shared set by the time of the attempt.
C30_AttemptsSendOneSnapshot ==
    \A r \in Requests :
        /\ ~HasSnapshot(r) => sent_headers[r] = <<>>
        /\ HasSnapshot(r) =>
                \A i \in 1..Len(sent_headers[r]) :
                    sent_headers[r][i].sent = HeaderExtend(snapshot[r], Overrides(r))

\* the shared set was the snapshot at the first attempt and another set at
\* the second, and both attempts sent the same headers
C30_Witness ==
    /\ Len(sent_headers["r1"]) >= 2
    /\ sent_headers["r1"][1].shared = snapshot["r1"]
    /\ sent_headers["r1"][2].shared # snapshot["r1"]
    /\ sent_headers["r1"][2].shared["authorization"] = <<"Bearer tokA">>
    /\ sent_headers["r1"][2].sent = sent_headers["r1"][1].sent
    /\ sent_headers["r1"][2].sent["authorization"] # <<"Bearer tokA">>

(***************************************************************************)
(* The log side channel: send_request with logging on or off.               *)
(***************************************************************************)
\* log_request(response): with `log` off it returns at once, else one record
\* of the response goes to the end of the log file.  The function is
\* private and nothing in the program calls it, so it is part of no
\* next-state relation: send_request returns without it.
log_request(r) ==
    /\ pc[r] = "returned"
    /\ log_sink' = IF log_enabled
                   THEN Append(log_sink, [call |-> r, status |-> result[r].status])
                   ELSE log_sink
    /\ UNCHANGED <<log_enabled, sharedVars, switchVars, cookieVars, callVars, histVars>>
    /\ UNCHANGED <<fetchVars, utilVars>>

SpecLog == LogInit /\ [][SendNext]_vars

\* the records of call r in the log sink
LogRecordsOf(r) == {i \in 1..Len(log_sink) : log_sink[i].call = r}

\* C25: with logging enabled every send_request call that has ended, with
\* a 2xx response or with its final failure, has put exactly one record
\* into the log sink; with logging disabled the sink stays empty.
C25_EveryEndedCallIsLogged ==
    /\ ~log_enabled => log_sink = <<>>
    /\ log_enabled =>
            \A r \in Requests :
                Cardinality(LogRecordsOf(r)) = IF pc[r] = "returned" THEN 1 ELSE 0

(***************************************************************************)
(* decorator.rs: with_retry(f, config).                                     *)
(***************************************************************************)
\* the largest retry count a caller configures
MaxRetryCount == 4
\* the delays a caller configures, in milliseconds
RetryDelaysMs == {10, 20}
RetryConfigArgs ==
    {<<>>} \cup {<<[retries |-> n, delay |-> d]>> : n \in 0..MaxRetryCount, d \in RetryDelaysMs}
\* what f() resolves to
RetryValues == {"a", "b"}
RetryErrors == {"e1", "e2"}
FnOk(v) == [kind |-> "Ok", value |-> v, error |-> ""]
FnErr(e) == [kind |-> "Err", value |-> "", error |-> e]

\* enum RetryError, and the Ok of with_retry
RetryOk(v) == [kind |-> "Ok", value |-> v, retries |-> 0, last_error |-> <<>>]
MaxRetriesReached(n, last) ==
    [kind |-> "MaxRetriesReached", value |-> "", retries |-> n, last_error |-> last]
InvalidConfig ==
    [kind |-> "InvalidConfig", value |-> "Retries must be at least 1", retries |-> 0,
     last_error |-> <<>>]

\* config.unwrap_or_default()
UnwrapOrDefault(config) == IF config = <<>> THEN DefaultRetryConfig ELSE config[1]

\* faulty variant: the retry count is not looked at
ValidRetries_Unchecked(config) == TRUE

\* the negation of `config.retries < 1`
ValidRetries(config) == ~(config.retries < 1)

\* faulty variant: 0..=config.retries
LoopRange_Inclusive(config) == 0..config.retries

\* 0..config.retries
LoopRange(config) == 0..(config.retries - 1)

\* with_retry is called: the config is unwrapped and checked
CallWithRetry(config) ==
    /\ wr_pc = "idle"
    /\ wr_config' = UnwrapOrDefault(config)
    /\ IF ValidRetries(wr_config')
       THEN wr_pc' = "loop" /\ wr_result' = <<>>
       ELSE wr_pc' = "returned" /\ wr_result' = <<InvalidConfig>>
    /\ wr_i' = 0
    /\ wr_last_error' = <<>>
    /\ UNCHANGED <<wr_calls, wr_sleeps>>
    /\ UNCHANGED <<sharedVars, switchVars, cookieVars, callVars, histVars>>
    /\ UNCHANGED <<fetchVars, logVars, onceVars, chunkVars>>

\* f().await is Ok(value): return Ok(value)
RetryInvokeOk(v) ==
    /\ wr_pc = "loop"
    /\ wr_i \in LoopRange(wr_config)
    /\ wr_calls' = Append(wr_calls, FnOk(v))
    /\ wr_result' = <<RetryOk(v)>>
    /\ wr_pc' = "returned"
    /\ UNCHANGED <<wr_config, wr_i, wr_last_error, wr_sleeps>>
    /\ UNCHANGED <<sharedVars, switchVars, cookieVars, callVars, histVars>>
    /\ UNCHANGED <<fetchVars, logVars, onceVars, chunkVars>>

\* f().await is Err(e): last_error = Some(e), and the sleep is entered unless
\* this was the last round
RetryInvokeErr(e) ==
    /\ wr_pc = "loop"
    /\ wr_i \in LoopRange(wr_config)
    /\ wr_calls' = Append(wr_calls, FnErr(e))
    /\ wr_last_error' = <<e>>
    /\ IF wr_i < wr_config.retries - 1
       THEN wr_pc' = "sleep" /\ wr_i' = wr_i
       ELSE wr_pc' = "loop" /\ wr_i' = wr_i + 1
    /\ UNCHANGED <<wr_config, wr_result, wr_sleeps>>
    /\ UNCHANGED <<sharedVars, switchVars, cookieVars, callVars, histVars>>
    /\ UNCHANGED <<fetchVars, logVars, onceVars, chunkVars>>

\* sleep(config.delay).await is over: the next round
RetrySleepElapsed ==
    /\ wr_pc = "sleep"
    /\ wr_sleeps' = Append(wr_sleeps, wr_config.delay)
    /\ wr_i' = wr_i + 1
    /\ wr_pc' = "loop"
    /\ UNCHANGED <<wr_config, wr_last_error, wr_result, wr_calls>>
    /\ UNCHANGED <<sharedVars, switchVars, cookieVars, callVars, histVars>>
    /\ UNCHANGED <<fetchVars, logVars, onceVars, chunkVars>>

\* the range is used up: Err(MaxRetriesReached(..)) with the last error
RetryLoopEnds ==
    /\ wr_pc = "loop"
    /\ wr_i \notin LoopRange(wr_config)
    /\ wr_result' = <<MaxRetriesReached(wr_config.retries, wr_last_error)>>
    /\ wr_pc' = "returned"
    /\ UNCHANGED <<wr_config, wr_i, wr_last_error, wr_calls, wr_sleeps>>
    /\ UNCHANGED <<sharedVars, switchVars, cookieVars, callVars, histVars>>
    /\ UNCHANGED <<fetchVars, logVars, onceVars, chunkVars>>

RetryNext ==
    \/ \E config \in RetryConfigArgs : CallWithRetry(config)
    \/ \E v \in RetryValues : RetryInvokeOk(v)
    \/ \E e \in RetryErrors : RetryInvokeErr(e)
    \/ RetrySleepElapsed
    \/ RetryLoopEnds

SpecRetry == Init /\ [][RetryNext]_vars

\* the invocations of f that failed
FailedCalls == {i \in 1..Len(wr_calls) : wr_calls[i].kind = "Err"}

\* C26: with retries = n >= 1, with_retry invokes f one call after the other
\* until the first success or until n invocations have failed: after k < n
\* failures and a success f has been invoked k + 1 times and that value is
\* returned; after n failures f has been invoked n times and the result is
\* MaxRetriesReached with the last error seen.
C26_RetryUntilSuccessOrCeiling ==
    (wr_pc # "idle" /\ wr_config.retries >= 1) =>
        LET n == wr_config.retries
            calls == Len(wr_calls)
        IN  /\ calls <= n
            /\ \A i \in 1..(calls - 1) : wr_calls[i].kind = "Err"
            /\ wr_pc # "returned" => FailedCalls = 1..calls
            /\ wr_pc = "returned" =>
                    /\ calls >= 1
                    /\ wr_calls[calls].kind = "Ok" =>
                            wr_result = <<RetryOk(wr_calls[calls].value)>>
                    /\ wr_calls[calls].kind = "Err" =>
                            /\ calls = n
                            /\ wr_result = <<MaxRetriesReached(n, <<wr_calls[n].error>>)>>

\* three retries: two failures then a success, three invocations
C26_Witness ==
    /\ wr_pc = "returned"
    /\ wr_config.retries = 3
    /\ wr_calls = <<FnErr("e1"), FnErr("e2"), FnOk("a")>>
    /\ wr_result = <<RetryOk("a")>>

\* C27: with a retry count below 1 with_retry returns InvalidConfig, the
\* operation is never invoked and nothing is slept.
C27_InvalidConfigBeforeAnyCall ==
    (wr_pc # "idle" /\ wr_config.retries < 1) =>
        /\ wr_pc = "returned"
        /\ wr_result = <<InvalidConfig>>
        /\ wr_calls = <<>>
        /\ wr_sleeps = <<>>

\* every sleep of a call lasts config.delay, and there is one sleep between
\* two invocations, none after the last
RetrySleepsBetweenCalls ==
    /\ \A i \in 1..Len(wr_sleeps) : wr_sleeps[i] = wr_config.delay
    /\ wr_pc = "returned" /\ wr_calls # <<>> => Len(wr_sleeps) = Len(wr_calls) - 1

\* retries = 0 has been answered
C27_Witness ==
    /\ wr_pc = "returned"
    /\ wr_config.retries = 0
    /\ wr_result = <<InvalidConfig>>
    /\ wr_calls = <<>>

(***************************************************************************)
(* decorator.rs: the accessor made by lazy_property! (and the instance()    *)
(* made by singleton!): a static Once and a static Option beside it, shared *)
(* by every caller of the accessor.                                         *)
(***************************************************************************)
\* the calls one thread makes
MaxAccessorCalls == 2
\* what the initializer expression may evaluate to
InitValues == {"x", "y"}
InitPanic == "<panic>"

\* faulty variant: a caller that finds the initializer running runs it too
MayRunInit_Racy(state) == state \in {"incomplete", "running"}

\* Once::call_once runs the closure in the one caller that finds the Once
\* incomplete
MayRunInit(state) == state = "incomplete"

\* the accessor is called
CallAccessor(t) ==
    /\ th_pc[t] = "idle"
    /\ th_calls[t] < MaxAccessorCalls
    /\ th_calls' = [th_calls EXCEPT ![t] = @ + 1]
    /\ th_pc' = [th_pc EXCEPT ![t] = "call_once"]
    /\ UNCHANGED <<once_state, once_value, th_results, init_runs>>
    /\ UNCHANGED <<sharedVars, switchVars, cookieVars, callVars, histVars>>
    /\ UNCHANGED <<fetchVars, logVars, retryVars, chunkVars>>

\* ONCE.call_once(..): this caller is the one to run the closure
OnceBegin(t) ==
    /\ th_pc[t] = "call_once"
    /\ MayRunInit(once_state)
    /\ once_state' = "running"
    /\ th_pc' = [th_pc EXCEPT ![t] = "init"]
    /\ UNCHANGED <<once_value, th_calls, th_results, init_runs>>
    /\ UNCHANGED <<sharedVars, switchVars, cookieVars, callVars, histVars>>
    /\ UNCHANGED <<fetchVars, logVars, retryVars, chunkVars>>

\* the closure: VALUE = Some($init), and the Once is complete
InitReturns(t, v) ==
    /\ th_pc[t] = "init"
    /\ once_value' = <<v>>
    /\ once_state' = "complete"
    /\ init_runs' = Append(init_runs, [by |-> t, outcome |-> v])
    /\ th_pc' = [th_pc EXCEPT ![t] = "read"]
    /\ UNCHANGED <<th_calls, th_results>>
    /\ UNCHANGED <<sharedVars, switchVars, cookieVars, callVars, histVars>>
    /\ UNCHANGED <<fetchVars, logVars, retryVars, chunkVars>>

\* $init panics: the Once is poisoned and the caller unwinds
InitPanics(t) ==
    /\ th_pc[t] = "init"
    /\ once_state' = "poisoned"
    /\ init_runs' = Append(init_runs, [by |-> t, outcome |-> InitPanic])
    /\ th_pc' = [th_pc EXCEPT ![t] = "panicked"]
    /\ UNCHANGED <<once_value, th_calls, th_results>>
    /\ UNCHANGED <<sharedVars, switchVars, cookieVars, callVars, histVars>>
    /\ UNCHANGED <<fetchVars, logVars, retryVars, chunkVars>>

\* ONCE.call_once(..) on a complete Once returns at once; a caller that found
\* the closure running has waited until here
OncePassed(t) ==
    /\ th_pc[t] = "call_once"
    /\ once_state = "complete"
    /\ th_pc' = [th_pc EXCEPT ![t] = "read"]
    /\ UNCHANGED <<once_state, once_value, th_calls, th_results, init_runs>>
    /\ UNCHANGED <<sharedVars, switchVars, cookieVars, callVars, histVars>>
    /\ UNCHANGED <<fetchVars, logVars, retryVars, chunkVars>>

\* ONCE.call_once(..) on a poisoned Once panics
OncePoisoned(t) ==
    /\ th_pc[t] = "call_once"
    /\ once_state = "poisoned"
    /\ th_pc' = [th_pc EXCEPT ![t] = "panicked"]
    /\ UNCHANGED <<once_state, once_value, th_calls, th_results, init_runs>>
    /\ UNCHANGED <<sharedVars, switchVars, cookieVars, callVars, histVars>>
    /\ UNCHANGED <<fetchVars, logVars, retryVars, chunkVars>>

\* VALUE.as_ref().unwrap() is returned
AccessorReturns(t) ==
    /\ th_pc[t] = "read"
    /\ once_value # <<>>
    /\ th_results' = [th_results EXCEPT ![t] = Append(@, once_value[1])]
    /\ th_pc' = [th_pc EXCEPT ![t] = "idle"]
    /\ UNCHANGED <<once_state, once_value, th_calls, init_runs>>
    /\ UNCHANGED <<sharedVars, switchVars, cookieVars, callVars, histVars>>
    /\ UNCHANGED <<fetchVars, logVars, retryVars, chunkVars>>

OnceNext ==
    \/ \E t \in Threads : CallAccessor(t)
    \/ \E t \in Threads : OnceBegin(t)
    \/ \E t \in Threads, v \in InitValues : InitReturns(t, v)
    \/ \E t \in Threads : InitPanics(t)
    \/ \E t \in Threads : OncePassed(t)
    \/ \E t \in Threads : OncePoisoned(t)
    \/ \E t \in Threads : AccessorReturns(t)

SpecOnce == Init /\ [][OnceNext]_vars

\* C28: over any number of calls from any number of concurrent callers the
\* initializer runs once and no more, and every call that returns returns
\* the value that one run produced.
C28_InitializedOnce ==
    /\ Len(init_runs) <= 1
    /\ Cardinality({t \in Threads : th_pc[t] = "init"}) + Len(init_runs) <= 1
    /\ \A t \in Threads :
            (th_results[t] # <<>> \/ th_pc[t] = "read") =>
                /\ Len(init_runs) = 1
                /\ once_value = <<init_runs[1].outcome>>
                /\ \A i \in 1..Len(th_results[t]) : th_results[t][i] = init_runs[1].outcome

\* three callers have each called twice, the second of them ran the
\* initializer, and all six calls returned its "x"
C28_Witness ==
    /\ init_runs = <<[by |-> "t2", outcome |-> "x"]>>
    /\ \A t \in Threads : th_results[t] = <<"x", "x">>

(***************************************************************************)
(* decorator.rs: Chunked, the iterator made by chunks(chunk_size).          *)
(***************************************************************************)
MaxInputLen == 3
MaxChunkSize == 3
\* the calls of next() a consumer makes before it gives up
MaxChunksTaken == 5
ChunkItems == {1, 2, 3}
ChunkInputs == UNION {[1..n -> ChunkItems] : n \in 0..MaxInputLen}
ChunkSizes == 0..MaxChunkSize

NoChunk == [some |-> FALSE, chunk |-> <<>>, inner |-> <<>>]
SomeChunk(chunk, inner) == [some |-> TRUE, chunk |-> chunk, inner |-> inner]

\* the loop of Chunked::next with `rounds` rounds to go
RECURSIVE FillChunk(_, _, _)
FillChunk(inner, chunk, rounds) ==
    IF rounds = 0 THEN SomeChunk(chunk, inner)
    ELSE IF inner # <<>>
         THEN FillChunk(Tail(inner), Append(chunk, Head(inner)), rounds - 1)
         ELSE IF chunk = <<>> THEN NoChunk ELSE SomeChunk(chunk, inner)

\* Chunked::next: a new Vec, then `for _ in 0..self.chunk_size`
ChunkedNext(inner, chunk_size) == FillChunk(inner, <<>>, chunk_size)

\* iter.chunks(chunk_size)
CallChunks(input, chunk_size) ==
    /\ ch_pc = "idle"
    /\ ch_inner' = input
    /\ ch_size' = chunk_size
    /\ ch_input' = input
    /\ ch_chunks' = <<>>
    /\ ch_pc' = "iterating"
    /\ UNCHANGED <<sharedVars, switchVars, cookieVars, callVars, histVars>>
    /\ UNCHANGED <<fetchVars, logVars, retryVars, onceVars>>

\* the consumer calls next() and gets Some(chunk)
NextYieldsChunk ==
    /\ ch_pc = "iterating"
    /\ Len(ch_chunks) < MaxChunksTaken
    /\ ChunkedNext(ch_inner, ch_size).some
    /\ ch_chunks' = Append(ch_chunks, ChunkedNext(ch_inner, ch_size).chunk)
    /\ ch_inner' = ChunkedNext(ch_inner, ch_size).inner
    /\ UNCHANGED <<ch_pc, ch_size, ch_input>>
    /\ UNCHANGED <<sharedVars, switchVars, cookieVars, callVars, histVars>>
    /\ UNCHANGED <<fetchVars, logVars, retryVars, onceVars>>

\* the consumer calls next() and gets None: the iteration is over
NextYieldsNone ==
    /\ ch_pc = "iterating"
    /\ Len(ch_chunks) < MaxChunksTaken
    /\ ~ChunkedNext(ch_inner, ch_size).some
    /\ ch_pc' = "done"
    /\ UNCHANGED <<ch_inner, ch_size, ch_input, ch_chunks>>
    /\ UNCHANGED <<sharedVars, switchVars, cookieVars, callVars, histVars>>
    /\ UNCHANGED <<fetchVars, logVars, retryVars, onceVars>>

ChunkNext ==
    \/ /\ ch_pc = "idle"
       /\ \E input \in ChunkInputs, chunk_size \in ChunkSizes : CallChunks(input, chunk_size)
    \/ NextYieldsChunk
    \/ NextYieldsNone

SpecChunk == Init /\ [][ChunkNext]_vars

\* the chunks one after the other
RECURSIVE Concat(_)
Concat(chunks) == IF chunks = <<>> THEN <<>> ELSE Head(chunks) \o Concat(Tail(chunks))

\* the chunks yielded are non-empty, full except possibly the last one, and
\* together a prefix of the input, all of it once the iteration is over
ChunksPartitionInput ==
    /\ \A i \in 1..Len(ch_chunks) : ch_chunks[i] # <<>>
    /\ \A i \in 1..(Len(ch_chunks) - 1) : Len(ch_chunks[i]) = ch_size
    /\ \A i \in 1..Len(ch_chunks) : Len(ch_chunks[i]) <= ch_size
    /\ Concat(ch_chunks) \o ch_inner = ch_input
    /\ ch_pc = "done" => Concat(ch_chunks) = ch_input

\* C29: for every finite input and every chunk_size, 0 included, iterating
\* chunks(chunk_size) comes to an end (non-empty chunks of a finite input
\* are no more than its elements) and yields only non-empty chunks, each
\* but possibly the last of chunk_size elements, whose concatenation in
\* order is the input.
C29_ChunksPartitionEveryInput ==
    ch_pc # "idle" =>
        /\ ChunksPartitionInput
        /\ Len(ch_chunks) <= Len(ch_input)

\* the same for the sizes from 1 on, where the code keeps it
ChunksPartitionForPositiveSize ==
    (ch_pc # "idle" /\ ch_size >= 1) =>
        /\ ChunksPartitionInput
        /\ Len(ch_chunks) <= Len(ch_input)

\* chunk_size 0: next() has handed out empty chunk after empty chunk and
\* nothing of the input
ChunkSizeZeroNeverEnds ==
    /\ ch_size = 0
    /\ ch_input = <<1, 2, 3>>
    /\ ch_inner = ch_input
    /\ ch_chunks = <<<<>>, <<>>, <<>>, <<>>>>

(***************************************************************************)
(* Calls of switch_account and update_cookies that return an error.         *)
(***************************************************************************)
\* a call of switch_account under way whose arguments make it return an error
SwitchFails(c) ==
    /\ sw_pc[c] \in {"match", "lock", "parse"}
    /\ \/ sw_args[c].identity \notin Identities
       \/ ~ValidHeaderValue(Bearer(sw_args[c].token))

\* C31: whenever switch_account returns an error, also for a recognized
\* identity with a token that makes no valid header value, the token slots
\* and the header set are as they were before the call: no step of such a
\* call changes either, and such a call ends in an error.
C31_FailedSwitchChangesNothing ==
    [][\A c \in Clients :
        (SwitchFails(c) /\ sw_pc'[c] # sw_pc[c]) =>
            /\ token'[c] = token[c]
            /\ headers' = headers
            /\ sw_pc'[c] = "returned" => sw_result'[c].state = "Err"]_vars

\* the header half of it, which the code keeps: a failing switch_account
\* never writes the header set
FailedSwitchKeepsHeaders ==
    [][\A c \in Clients :
        (SwitchFails(c) /\ sw_pc'[c] # sw_pc[c]) =>
            /\ headers' = headers
            /\ sw_pc'[c] = "returned" => sw_result'[c].state = "Err"]_vars

\* switch_account("tok\nC", "average") has returned InvalidCookie, the
\* headers are without Authorization as before, and the slot holds the token
FailedSwitchWroteSlot ==
    /\ sw_pc["c1"] = "returned"
    /\ sw_calls["c1"] = 1
    /\ sw_args["c1"] = [token |-> "tok\nC", identity |-> "average"]
    /\ sw_result["c1"] = Err(InvalidCookie)
    /\ token["c1"]["average"] = "tok\nC"
    /\ sw_pc["c2"] = "idle"
    /\ headers["authorization"] = <<>>

\* a call of update_cookies under way whose argument is no header value
CookiesFail == uc_pc \in {"lock", "remove", "parse"} /\ ~ValidHeaderValue(uc_arg)

\* C32: an update_cookies call that fails with InvalidCookie leaves the
\* header set as it was (no step of it changes the set, a Cookie header
\* set before is still there); a call that succeeds leaves one Cookie
\* value, the new one; and no request takes its header snapshot between
\* the removal of the old value and the end of the call.
C32_FailedCookiesChangeNothing ==
    [][/\ (CookiesFail /\ uc_pc' # uc_pc) =>
            /\ headers' = headers
            /\ uc_pc' = "returned" => uc_result' = Err(InvalidCookie)
       /\ (uc_pc = "insert" /\ uc_pc' = "returned") =>
            uc_result' = Ok(0) /\ headers'["cookie"] = <<uc_arg>>
       /\ \A r \in Requests :
            snapshot'[r] # snapshot[r] => uc_pc \notin {"remove", "parse", "insert"}]_vars

\* the two parts of it the code keeps: the new value alone after a success,
\* and no snapshot taken while the call holds the lock
CookieUpdateIsAtomic ==
    [][/\ (uc_pc = "insert" /\ uc_pc' = "returned") =>
            uc_result' = Ok(0) /\ headers'["cookie"] = <<uc_arg>>
       /\ \A r \in Requests :
            snapshot'[r] # snapshot[r] => uc_pc \notin {"remove", "parse", "insert"}]_vars

\* update_cookies("sid=\n2") has returned InvalidCookie and the Cookie
\* header the configuration had set is gone
FailedCookiesLostCookie ==
    /\ uc_pc = "returned"
    /\ uc_arg = "sid=\n2"
    /\ uc_result = Err(InvalidCookie)
    /\ headers["cookie"] = <<>>
    /\ headers["authorization"] = <<"Bearer cfg">>

(***************************************************************************)
(* Further properties of the stream of fetch_data.                          *)
(***************************************************************************)
\* C33: with a limit L the output holds at most L elements, error elements
\* counted like items: every element delivered, a page failure and a decode
\* failure too, takes one unit of the limit, so the items delivered are at
\* most L less the error elements.
C33_ErrorsCountAgainstLimit ==
    (fd_pc \in {"streaming", "ended"} /\ fd_limit # <<>>) =>
        /\ remaining = fd_limit[1] - Len(output)
        /\ remaining >= 0
        /\ ItemCount(output) + ErrorCount(output) <= fd_limit[1]
        /\ ItemCount(output) <= fd_limit[1] - ErrorCount(output)

\* limit 2: a failed page and one item of the next page have used the limit
\* up, and the second item of that page, received and decodable, stays out
C33_Witness ==
    /\ fd_pc = "ended"
    /\ fd_limit = <<2>>
    /\ Len(output) = 2
    /\ output[1].kind = "page_error"
    /\ output[2].kind = "item"
    /\ current # <<>>
    /\ current[1].items # <<>>
    /\ current[1].items[1].kind = "item"

\* the initial send_request of fetch_data, made before the stream exists
SeedRequests == IF fd_pc = "idle" THEN 0 ELSE 1

\* element e is one of the elements the response of its page stands for
FromItsPage(e) ==
    /\ e.page \in Pages
    /\ fetched[e.page] # <<>>
    /\ \E j \in 1..Len(PageElements(e.page, fetched[e.page][1])) :
            PageElements(e.page, fetched[e.page][1])[j] = e

\* C34: a stream with a supported strategy and no limit that has been read
\* to its end has requested every page index 0..total_pages-1 once, none
\* left out and none twice, after the initial request that seeds the plan:
\* total_pages + 1 calls, page 0 among the pages requested, and every element
\* of the output is an element of a page response, none of the initial one.
C34_EveryPageRequestedOnce ==
    (fd_pc = "ended" /\ fd_limit = <<>> /\ fd_method \in SupportedMethods) =>
        /\ requested = [i \in 1..total_pages |-> i - 1]
        /\ SeedRequests + Len(requested) = total_pages + 1
        /\ \A q \in Pages : fetched[q] # <<>>
        /\ \A i \in 1..Len(output) : FromItsPage(output[i])
        /\ Len(output) = ElementsFetched

\* four pages read to the end: five calls, and the eight items of the four
\* page responses in the output
C34_Witness ==
    /\ fd_pc = "ended"
    /\ fd_limit = <<>>
    /\ fd_method = "offset"
    /\ total_pages = 4
    /\ requested = <<0, 1, 2, 3>>
    /\ SeedRequests + Len(requested) = 5
    /\ Len(output) = 8
    /\ ItemCount(output) = 8

\* C35: with up to 3 pages fetched at the same time, the output never mixes
\* the elements of two pages: the elements of one page stand side by side.
C35_PagesAreContiguous ==
    \A i \in 1..Len(output) : \A k \in i..Len(output) :
        output[i].page = output[k].page =>
            \A j \in i..k : output[j].page = output[i].page

\* pages 0, 1 and 2 were in flight together; page 1 ended first, then page 0,
\* and the output holds the two elements of page 1 before the two of page 0
\* while page 2 is still in flight
C35_Witness ==
    /\ fd_pc = "streaming"
    /\ Len(output) = 4
    /\ output[1].page = 1 /\ output[2].page = 1
    /\ output[3].page = 0 /\ output[4].page = 0
    /\ 2 \in in_progress
    /\ fetched[2] = <<>>

\* C36: a page response that holds data_key with a value that is no array
\* gives the output no element at all for its page: no item and no error
\* element.
C36_NotArrayIsEmptyPage ==
    \A q \in Pages :
        (fetched[q] # <<>> /\ fetched[q][1].kind = "not_array") =>
            /\ OfPage(output, q) = <<>>
            /\ (current # <<>> /\ current[1].page = q) => current[1].items = <<>>

\* two pages read to the end without a limit: page 0 held no array, and the
\* output is the one item of page 1
C36_Witness ==
    /\ fd_pc = "ended"
    /\ fd_limit = <<>>
    /\ total_pages = 2
    /\ fetched[0] = <<NotArrayResponse>>
    /\ fetched[1] = <<ArrayResponse(<<"ok">>)>>
    /\ Len(output) = 1
    /\ output[1].page = 1
    /\ output[1].kind = "item"

(***************************************************************************)
(* Further properties of send_request.                                      *)
(***************************************************************************)
\* attempt i of call r got a response without success status whose body
\* could not be read
BodyReadFailed(r, i) ==
    /\ sent[r][i].kind = "Response"
    /\ ~IsSuccess(sent[r][i].status)
    /\ ~sent[r][i].body_read

\* the attempts of call r before attempt i in which send() itself failed
TransportFailuresBefore(r, i) ==
    {j \in 1..(i - 1) : sent[r][j].kind = "Transport"}

\* C37: when the body of a non-success response cannot be read, send_request
\* returns that read error at once: the attempt is the last one of the call,
\* whatever is left of the ceiling, and no backoff sleep follows it.
C37_BodyReadErrorReturnsAtOnce ==
    \A r \in Requests : \A i \in 1..Len(sent[r]) :
        BodyReadFailed(r, i) =>
            /\ i = Len(sent[r])
            /\ pc[r] = "returned"
            /\ result[r] = Err(HttpError(sent[r][i].text))
            /\ Len(sleeps[r]) = Cardinality(TransportFailuresBefore(r, i))

\* the default ceiling of 3: the first attempt got a response whose body
\* could not be read, and the call has returned after one attempt, no sleep
C37_Witness ==
    /\ pc["r1"] = "returned"
    /\ call_retries["r1"] = <<>>
    /\ retries["r1"] = MAX_RETRIES
    /\ Len(sent["r1"]) = 1
    /\ BodyReadFailed("r1", 1)
    /\ sleeps["r1"] = <<>>
    /\ result["r1"].state = "Err"

\* C38: send_request with a retry override of 0 sends no request at all and
\* returns the Unknown error 'Maximum retries exceeded': there is no last
\* failure to return.
C38_ZeroRetriesSendsNothing ==
    \A r \in Requests :
        (HasSnapshot(r) /\ call_retries[r] = <<0>>) =>
            /\ sent[r] = <<>>
            /\ sleeps[r] = <<>>
            /\ pc[r] \in {"loop", "returned"}
            /\ pc[r] = "loop" => ENABLED RetriesUsedUp(r) /\ ~ENABLED Attempt(r)
            /\ pc[r] = "returned" =>
                    result[r] = Err(UnknownError("Maximum retries exceeded"))

\* a call with the override 0 has returned
C38_Witness ==
    /\ pc["r1"] = "returned"
    /\ call_retries["r1"] = <<0>>
    /\ sent["r1"] = <<>>
    /\ result["r1"] = Err(UnknownError("Maximum retries exceeded"))

====
